---------------------------- MODULE Spec2Model ----------------------------
(* A model of pmtiles-rs (crate pmtiles2): the tile manager, the directory *)
(* codec, the directory walker, the root/leaf splitter, the tile-id        *)
(* mapping and the header codec.                                           *)
EXTENDS Integers, Sequences, FiniteSets, TLC

VARIABLES
    tile_by_id,    \* TileManager.tile_by_id : tile id -> TileManagerTile
    data_by_hash,  \* TileManager.data_by_hash : hash -> bytes
    ids_by_hash,   \* TileManager.ids_by_hash : hash -> set of tile ids
    reader,        \* TileManager.reader : None or the bytes of the source
    shadow,        \* ghost: the plain map tile id -> bytes of add_tile/remove_tile
    collided,      \* ghost: two distinct contents with one hash were stored together
    last,          \* ghost: the last call and what it returned
    result,        \* the FinishResult of finish, once called
    pc,            \* position of the modelled program
    inp,           \* the inputs of the pure operations (codec, walker, splitter, ...)
    out            \* their outputs

vars == <<tile_by_id, data_by_hash, ids_by_hash, reader, shadow, collided,
          last, result, pc, inp, out>>

-----------------------------------------------------------------------------
(* Generic helpers                                                          *)

None == [kind |-> "None"]

Some(v) == [kind |-> "Some", val |-> v]

Err(e) == [kind |-> "Err", err |-> e]

EmptyMap == [x \in {} |-> 0]

MapPut(m, k, v) == [x \in (DOMAIN m) \cup {k} |-> IF x = k THEN v ELSE m[x]]

MapDel(m, k) == [x \in (DOMAIN m) \ {k} |-> m[x]]

RECURSIVE Pow(_, _)
Pow(b, e) == IF e = 0 THEN 1 ELSE b * Pow(b, e - 1)

Min(a, b) == IF a < b THEN a ELSE b

RECURSIVE SortedSeq(_)
SortedSeq(S) ==
    IF S = {} THEN <<>>
    ELSE LET m == CHOOSE x \in S : \A y \in S : x <= y
         IN  <<m>> \o SortedSeq(S \ {m})

RECURSIVE SumSeq(_)
SumSeq(s) == IF s = <<>> THEN 0 ELSE Head(s) + SumSeq(Tail(s))

-----------------------------------------------------------------------------
(* Bounds of the tile manager model                                         *)

MaxTileId == 2

HashBits == 2

\* The model's width of the u32 that holds the length of an entry, to which
\* finish casts the length of a body and only_leaf_pointer_strategy that of a
\* leaf directory; the program's is 32 bits.
U32Bits == 5

U32Modulus == Pow(2, U32Bits)

TileIds == 0 .. MaxTileId

\* Tile bodies handed to add_tile.
Contents == {<<>>, <<1>>, <<1, 2>>}

\* The source reader of a manager built by PMTiles::from_reader.
ReaderBytes == <<1, 2, 1, 2>>

\* (offset, length) pairs handed to add_offset_tile; the last one ends past
\* the end of the reader.
OffsetRefs == {<<0, 2>>, <<2, 2>>, <<3, 2>>}

-----------------------------------------------------------------------------
(* src/src/tile_manager.rs                                                  *)

\* calculate_hash: a hash of fixed width over the bytes of a tile. The
\* program's width is 64 bits; the model's is HashBits, so that, as in the
\* program, there are more contents than hash values.
RECURSIVE HashFold(_, _)
HashFold(h, bytes) ==
    IF bytes = <<>> THEN h
    ELSE HashFold((h * 31 + Head(bytes)) % Pow(2, HashBits), Tail(bytes))

calculate_hash(value) == HashFold(0, value)

HashTile(h) == [kind |-> "Hash", hash |-> h]

OffsetLengthTile(o, l) == [kind |-> "OffsetLength", offset |-> o, length |-> l]

Manager(t, d, i) == [tile_by_id |-> t, data_by_hash |-> d, ids_by_hash |-> i]

\* A mutant of remove_tile: frees the body without looking at the other ids.
remove_tile_no_refcount(tm, tile_id) ==
    IF tile_id \notin DOMAIN tm.tile_by_id
    THEN [tm |-> tm, ret |-> FALSE]
    ELSE LET tile == tm.tile_by_id[tile_id]
             rest == MapDel(tm.tile_by_id, tile_id)
         IN  IF tile.kind # "Hash"
             THEN [tm |-> Manager(rest, tm.data_by_hash, tm.ids_by_hash), ret |-> TRUE]
             ELSE [tm |-> Manager(rest, MapDel(tm.data_by_hash, tile.hash),
                                  MapDel(tm.ids_by_hash, tile.hash)),
                   ret |-> TRUE]

remove_tile(tm, tile_id) ==
    IF tile_id \notin DOMAIN tm.tile_by_id
    THEN [tm |-> tm, ret |-> FALSE]
    ELSE LET tile == tm.tile_by_id[tile_id]
             rest == MapDel(tm.tile_by_id, tile_id)
         IN  IF tile.kind # "Hash"
             THEN [tm |-> Manager(rest, tm.data_by_hash, tm.ids_by_hash), ret |-> TRUE]
             ELSE LET hash == tile.hash
                      ids_with_hash ==
                          (IF hash \in DOMAIN tm.ids_by_hash
                           THEN tm.ids_by_hash[hash] ELSE {}) \ {tile_id}
                  IN  IF ids_with_hash = {}
                      THEN [tm |-> Manager(rest, MapDel(tm.data_by_hash, hash),
                                           MapDel(tm.ids_by_hash, hash)),
                            ret |-> TRUE]
                      ELSE [tm |-> Manager(rest, tm.data_by_hash,
                                           MapPut(tm.ids_by_hash, hash, ids_with_hash)),
                            ret |-> TRUE]

\* A mutant of add_tile: does not enter the id in the reverse index.
add_tile_no_index(tm, tile_id, vec) ==
    LET t1   == remove_tile(tm, tile_id).tm
        hash == calculate_hash(vec)
    IN  Manager(MapPut(t1.tile_by_id, tile_id, HashTile(hash)),
                MapPut(t1.data_by_hash, hash, vec),
                t1.ids_by_hash)

add_tile(tm, tile_id, vec) ==
    LET t1   == remove_tile(tm, tile_id).tm
        hash == calculate_hash(vec)
        old  == IF hash \in DOMAIN t1.ids_by_hash THEN t1.ids_by_hash[hash] ELSE {}
    IN  Manager(MapPut(t1.tile_by_id, tile_id, HashTile(hash)),
                MapPut(t1.data_by_hash, hash, vec),
                MapPut(t1.ids_by_hash, hash, old \cup {tile_id}))

add_offset_tile(tm, tile_id, offset, length) ==
    Manager(MapPut(tm.tile_by_id, tile_id, OffsetLengthTile(offset, length)),
            tm.data_by_hash, tm.ids_by_hash)

num_addressed_tiles(tm) == Cardinality(DOMAIN tm.tile_by_id)

\* get_tile_content: Ok(Some(bytes)), Ok(None) or Err. The reader is sought to
\* `offset` and exactly `length` bytes are read; read_exact fails past the end.
get_tile_content(rd, dbh, tile) ==
    IF tile.kind = "Hash"
    THEN IF tile.hash \in DOMAIN dbh THEN Some(dbh[tile.hash]) ELSE None
    ELSE IF rd = None
         THEN Err("Tried to read from non-existent reader")
         ELSE IF tile.offset + tile.length > Len(rd.val)
              THEN Err("UnexpectedEof")
              ELSE Some(SubSeq(rd.val, tile.offset + 1, tile.offset + tile.length))

get_tile(rd, tm, tile_id) ==
    IF tile_id \notin DOMAIN tm.tile_by_id
    THEN None
    ELSE get_tile_content(rd, tm.data_by_hash, tm.tile_by_id[tile_id])

Entry(t, o, l, r) == [tile_id |-> t, offset |-> o, length |-> l, run_length |-> r]

\* A mutant of push_entry: never merges.
push_entry_no_merge(entries, tile_id, offset, length) ==
    Append(entries, Entry(tile_id, offset, length, 1))

push_entry(entries, tile_id, offset, length) ==
    IF entries # <<>>
       /\ tile_id = entries[Len(entries)].tile_id + entries[Len(entries)].run_length
       /\ entries[Len(entries)].offset = offset
       /\ entries[Len(entries)].length = length
    THEN [entries EXCEPT ![Len(entries)].run_length = @ + 1]
    ELSE Append(entries, Entry(tile_id, offset, length, 1))

\* The state of finish's main loop.
FinishAcc(e, d, na, nc, olm) ==
    [entries |-> e, data |-> d, num_addressed_tiles |-> na,
     num_tile_content |-> nc, offset_length_map |-> olm]

\* A mutant of finish's loop body: appends every body, also on a cache hit.
finish_step_no_dedup(acc, tile_id, tile, tile_data) ==
    FinishAcc(push_entry(acc.entries, tile_id, Len(acc.data),
                         Len(tile_data) % U32Modulus),
              acc.data \o tile_data,
              acc.num_addressed_tiles + 1,
              acc.num_tile_content + 1,
              acc.offset_length_map)

\* One iteration of finish's main loop for a tile whose content was read.
finish_step(acc, tile_id, tile, tile_data) ==
    LET hash == IF tile.kind = "Hash" THEN tile.hash ELSE calculate_hash(tile_data)
    IN  IF hash \in DOMAIN acc.offset_length_map
        THEN LET ol == acc.offset_length_map[hash]
             IN  FinishAcc(push_entry(acc.entries, tile_id, ol[1], ol[2]),
                           acc.data,
                           acc.num_addressed_tiles + 1,
                           acc.num_tile_content,
                           acc.offset_length_map)
        ELSE LET offset == Len(acc.data)
                 length == Len(tile_data) % U32Modulus
             IN  FinishAcc(push_entry(acc.entries, tile_id, offset, length),
                           acc.data \o tile_data,
                           acc.num_addressed_tiles + 1,
                           acc.num_tile_content + 1,
                           MapPut(acc.offset_length_map, hash, <<offset, length>>))

RECURSIVE finish_loop(_, _, _, _)
finish_loop(rd, tm, id_tile, acc) ==
    IF id_tile = <<>>
    THEN [kind |-> "Ok",
          data |-> acc.data,
          directory |-> acc.entries,
          num_addressed_tiles |-> acc.num_addressed_tiles,
          num_tile_content |-> acc.num_tile_content,
          num_tile_entries |-> Len(acc.entries)]
    ELSE LET tile_id == Head(id_tile)
             tile    == tm.tile_by_id[tile_id]
             content == get_tile_content(rd, tm.data_by_hash, tile)
         IN  CASE content.kind = "Err"  -> content
               [] content.kind = "None" -> finish_loop(rd, tm, Tail(id_tile), acc)
               [] OTHER -> finish_loop(rd, tm, Tail(id_tile),
                                       finish_step(acc, tile_id, tile, content.val))

\* A mutant of finish: walks the ids in descending order (no sort ascending).
finish_unsorted(rd, tm) ==
    LET asc == SortedSeq(DOMAIN tm.tile_by_id)
        desc == [i \in 1 .. Len(asc) |-> asc[Len(asc) + 1 - i]]
    IN  finish_loop(rd, tm, desc, FinishAcc(<<>>, <<>>, 0, 0, EmptyMap))

finish(rd, tm) ==
    finish_loop(rd, tm, SortedSeq(DOMAIN tm.tile_by_id),
                FinishAcc(<<>>, <<>>, 0, 0, EmptyMap))

-----------------------------------------------------------------------------
(* The tile manager as a state machine                                      *)

TM == Manager(tile_by_id, data_by_hash, ids_by_hash)

NoCall == [op |-> "none"]

IdleRest == inp = None /\ out = None

InitTM ==
    /\ tile_by_id = EmptyMap
    /\ data_by_hash = EmptyMap
    /\ ids_by_hash = EmptyMap
    /\ reader \in {None, Some(ReaderBytes)}
    /\ shadow = EmptyMap
    /\ collided = FALSE
    /\ last = NoCall
    /\ result = None
    /\ pc = "open"
    /\ IdleRest

SetTM(tm) ==
    /\ tile_by_id' = tm.tile_by_id
    /\ data_by_hash' = tm.data_by_hash
    /\ ids_by_hash' = tm.ids_by_hash

\* Two distinct bodies with one hash are in the manager together.
Collides(tm, vec) ==
    LET hash == calculate_hash(vec)
    IN  hash \in DOMAIN tm.data_by_hash /\ tm.data_by_hash[hash] # vec

\* The calls, on the manager's own state.
AddTileCall(tile_id, vec) == SetTM(add_tile(TM, tile_id, vec))

AddOffsetTileCall(tile_id, offset, length) ==
    SetTM(add_offset_tile(TM, tile_id, offset, length))

RemoveTileCall(tile_id) == SetTM(remove_tile(TM, tile_id).tm)

AddTile ==
    /\ pc = "open"
    /\ \E tile_id \in TileIds, vec \in Contents : AddTileCall(tile_id, vec)
    /\ UNCHANGED <<reader, shadow, collided, last, result, pc, inp, out>>

AddOffsetTile ==
    /\ pc = "open"
    /\ \E tile_id \in TileIds, ol \in OffsetRefs :
          AddOffsetTileCall(tile_id, ol[1], ol[2])
    /\ UNCHANGED <<reader, shadow, collided, last, result, pc, inp, out>>

RemoveTile ==
    /\ pc = "open"
    /\ \E tile_id \in TileIds : RemoveTileCall(tile_id)
    /\ UNCHANGED <<reader, shadow, collided, last, result, pc, inp, out>>

Finish ==
    /\ pc = "open"
    /\ result' = finish(reader, TM)
    /\ pc' = "finished"
    /\ UNCHANGED <<tile_by_id, data_by_hash, ids_by_hash, reader, shadow,
                   collided, last, inp, out>>

NextTM == AddTile \/ AddOffsetTile \/ RemoveTile \/ Finish

SpecTM == InitTM /\ [][NextTM]_vars

\* A manager without a reader, driven through its public interface only, with
\* the plain map (shadow) and the value each call returned (last) recorded.
InitPlain == InitTM /\ reader = None

PlainAddTile ==
    /\ pc = "open"
    /\ \E tile_id \in TileIds, vec \in Contents :
          /\ AddTileCall(tile_id, vec)
          /\ shadow' = MapPut(shadow, tile_id, vec)
          /\ collided' = (collided \/ Collides(remove_tile(TM, tile_id).tm, vec))
          /\ last' = [op |-> "add_tile"]
    /\ UNCHANGED <<reader, result, pc, inp, out>>

PlainRemoveTile ==
    /\ pc = "open"
    /\ \E tile_id \in TileIds :
          /\ RemoveTileCall(tile_id)
          /\ shadow' = MapDel(shadow, tile_id)
          /\ last' = [op |-> "remove_tile", ret |-> remove_tile(TM, tile_id).ret,
                      was_present |-> tile_id \in DOMAIN shadow]
    /\ UNCHANGED <<reader, collided, result, pc, inp, out>>

PlainGetTile ==
    /\ pc = "open"
    /\ \E tile_id \in TileIds :
          last' = [op |-> "get_tile", ret |-> get_tile(reader, TM, tile_id),
                   plain |-> IF tile_id \in DOMAIN shadow
                             THEN Some(shadow[tile_id]) ELSE None]
    /\ UNCHANGED <<tile_by_id, data_by_hash, ids_by_hash, reader, shadow,
                   collided, result, pc, inp, out>>

NextPlain == PlainAddTile \/ PlainRemoveTile \/ PlainGetTile

SpecPlain == InitPlain /\ [][NextPlain]_vars

-----------------------------------------------------------------------------
(* Properties of the tile manager                                           *)

Finished == pc = "finished" /\ result.kind = "Ok"

\* What get_tile returns for the ids the manager holds.
ContentOf(id) == get_tile(reader, TM, id)

PresentContents == {ContentOf(id).val : id \in DOMAIN tile_by_id}

\* No two distinct contents held by the manager have the same hash.
NoHashCollision ==
    \A c1, c2 \in PresentContents :
        calculate_hash(c1) = calculate_hash(c2) => c1 = c2

RECURSIVE SumLen(_)
SumLen(S) ==
    IF S = {} THEN 0
    ELSE LET c == CHOOSE x \in S : TRUE IN Len(c) + SumLen(S \ {c})

\* The indices of the directory entries whose tile-id range contains id.
Covering(dir, id) ==
    {i \in 1 .. Len(dir) :
        dir[i].tile_id <= id /\ id < dir[i].tile_id + dir[i].run_length}

\* C1: after any sequence of add_tile, add_offset_tile and remove_tile, every
\* tile id whose reference is Hash(h) has h as a key of data_by_hash and is a
\* member of ids_by_hash[h].
C1_HashRefsBacked ==
    \A id \in DOMAIN tile_by_id :
        tile_by_id[id].kind = "Hash" =>
            /\ tile_by_id[id].hash \in DOMAIN data_by_hash
            /\ tile_by_id[id].hash \in DOMAIN ids_by_hash
            /\ id \in ids_by_hash[tile_by_id[id].hash]

\* C1's case: a hash reference is held while the reverse index of its hash
\* also lists an id that add_offset_tile has since taken over.
C1_Witness ==
    \E id \in DOMAIN tile_by_id, other \in DOMAIN tile_by_id :
        /\ tile_by_id[id].kind = "Hash"
        /\ tile_by_id[other].kind = "OffsetLength"
        /\ other \in ids_by_hash[tile_by_id[id].hash]

\* The plain map seen through get_tile, for every id.
PlainGets ==
    /\ \A id \in TileIds :
          get_tile(reader, TM, id) =
              IF id \in DOMAIN shadow THEN Some(shadow[id]) ELSE None
    /\ (last.op = "get_tile" => last.ret = last.plain)

\* The plain map seen through remove_tile's result and the count of ids.
PlainCounts ==
    /\ num_addressed_tiles(TM) = Cardinality(DOMAIN shadow)
    /\ (last.op = "remove_tile" => last.ret = last.was_present)

\* C2 as stated: a manager without a reader is a plain map from tile id to
\* bytes under add_tile, remove_tile and get_tile, for every sequence of calls.
C2_PlainMap == PlainGets /\ PlainCounts

\* C2 as amended: the manager is a plain map as long as no add_tile stores a
\* body whose hash is that of a different body held at that moment; the count
\* of ids and remove_tile's result are those of the plain map in every case.
C2_PlainMapNoCollision == PlainCounts /\ (~collided => PlainGets)

\* C2's case: two ids hold the same body, a third call replaced or removed
\* an entry, and get_tile has just returned a body.
C2_Witness ==
    /\ ~collided
    /\ last.op = "get_tile" /\ last.ret.kind = "Some"
    /\ \E a, b \in DOMAIN shadow : a # b /\ shadow[a] = shadow[b]
    /\ Cardinality(DOMAIN shadow) < Cardinality(TileIds)

\* C3: the directory returned by finish is strictly increasing in tile_id and
\* each entry starts at or after the end of the run of the one before it.
C3_Ordered ==
    Finished =>
        \A i \in 1 .. Len(result.directory) - 1 :
            /\ result.directory[i].tile_id < result.directory[i + 1].tile_id
            /\ result.directory[i + 1].tile_id >=
                   result.directory[i].tile_id + result.directory[i].run_length

\* C3's case: finish returned a directory of several entries, one of them a
\* merged run.
C3_Witness ==
    /\ Finished
    /\ Len(result.directory) >= 2
    /\ \E i \in 1 .. Len(result.directory) : result.directory[i].run_length >= 2

\* Ids with byte-identical contents are covered by entries of one (offset,
\* length), and the blob holds each distinct content once.
DedupHolds ==
    /\ \A a, b \in DOMAIN tile_by_id :
          ContentOf(a) = ContentOf(b) =>
              \A i \in Covering(result.directory, a), j \in Covering(result.directory, b) :
                  /\ result.directory[i].offset = result.directory[j].offset
                  /\ result.directory[i].length = result.directory[j].length
    /\ \A a \in DOMAIN tile_by_id : Covering(result.directory, a) # {}
    /\ Len(result.data) = SumLen(PresentContents)

C5_MaximalMerge ==
    Finished =>
        /\ \A i \in 1 .. Len(result.directory) - 1 :
              ~ /\ result.directory[i + 1].tile_id =
                       result.directory[i].tile_id + result.directory[i].run_length
                /\ result.directory[i + 1].offset = result.directory[i].offset
                /\ result.directory[i + 1].length = result.directory[i].length
        /\ \A a \in DOMAIN tile_by_id :
              (a + 1 \in DOMAIN tile_by_id /\ ContentOf(a) = ContentOf(a + 1)) =>
                  Covering(result.directory, a) = Covering(result.directory, a + 1)

\* C5's case: every tile id of the model holds the same content, and the
\* directory is one entry with that run length.
C5_Witness ==
    /\ Finished
    /\ DOMAIN tile_by_id = TileIds
    /\ Len(result.directory) = 1
    /\ result.directory[1].run_length = Cardinality(TileIds)

-----------------------------------------------------------------------------
(* Integer widths                                                           *)

\* The model's width of a u64; the program's is 64 bits.
U64Bits == 16

U64Modulus == Pow(2, U64Bits)

U64Max == U64Modulus - 1

Panic == [kind |-> "Panic"]

Ok(v) == [kind |-> "Ok", val |-> v]

\* An arithmetic result x of type u64: a build with overflow checks (debug)
\* panics when x is out of range, a build without (release) wraps.
U64(x, overflow_checks) ==
    IF 0 <= x /\ x <= U64Max THEN Ok(x)
    ELSE IF overflow_checks THEN Panic ELSE Ok(x % U64Modulus)

-----------------------------------------------------------------------------
(* src/src/util/compress.rs and src/src/header/compression.rs               *)

Compressions == {"Unknown", "None", "GZip", "Brotli", "ZStd"}

\* The first byte of the frame each encoder writes before the payload. The
\* encoders themselves are libraries; the model keeps what the program relies
\* on: they are invertible, tell their formats apart and add bytes.
FrameByte(compression) ==
    CASE compression = "GZip" -> 31
      [] compression = "Brotli" -> 11
      [] compression = "ZStd" -> 40

compress_all(compression, data) ==
    CASE compression = "Unknown" -> Err("Cannot compress for Compression Unknown")
      [] compression = "None" -> Ok(data)
      [] OTHER -> Ok(<<FrameByte(compression)>> \o data)

\* A mutant of decompress_all: Unknown hands the data through.
decompress_all_pass_through(compression, data) ==
    CASE compression \in {"Unknown", "None"} -> Ok(data)
      [] OTHER -> IF data # <<>> /\ Head(data) = FrameByte(compression)
                  THEN Ok(Tail(data))
                  ELSE Err("corrupt stream")

decompress_all(compression, data) ==
    CASE compression = "Unknown" -> Err("Cannot decompress for Compression Unknown")
      [] compression = "None" -> Ok(data)
      [] OTHER -> IF data # <<>> /\ Head(data) = FrameByte(compression)
                  THEN Ok(Tail(data))
                  ELSE Err("corrupt stream")

-----------------------------------------------------------------------------
(* src/src/directory.rs                                                     *)

\* write_varint: LEB128, least significant group first.
RECURSIVE write_varint(_)
write_varint(value) ==
    IF value < 128 THEN <<value>>
    ELSE <<128 + (value % 128)>> \o write_varint(value \div 128)

\* read_varint at position pos (1-based) of bytes: the value and the position
\* after it, or Err at the end of the input.
RECURSIVE read_varint_from(_, _, _, _)
read_varint_from(bytes, pos, mult, acc) ==
    IF pos > Len(bytes) THEN Err("UnexpectedEof")
    ELSE LET b == bytes[pos]
             v == acc + (b % 128) * mult
         IN  IF b < 128 THEN [kind |-> "Ok", val |-> v, next |-> pos + 1]
             ELSE read_varint_from(bytes, pos + 1, mult * 128, v)

read_varint(bytes, pos) == read_varint_from(bytes, pos, 1, 0)

\* n varints in a row: their values and the position after them.
RECURSIVE read_column(_, _, _, _)
read_column(bytes, pos, n, acc) ==
    IF n = 0 THEN [kind |-> "Ok", val |-> acc, next |-> pos]
    ELSE LET r == read_varint(bytes, pos)
         IN  IF r.kind # "Ok" THEN r
             ELSE read_column(bytes, r.next, n - 1, Append(acc, r.val))

\* read tile_id: n varints from pos, each added to the id before it.
RECURSIVE decode_tile_ids(_, _, _, _, _, _)
decode_tile_ids(bytes, pos, n, last_id, acc, overflow_checks) ==
    IF n = 0 THEN [kind |-> "Ok", val |-> acc, next |-> pos]
    ELSE LET tmp == read_varint(bytes, pos)
             id  == IF tmp.kind = "Ok"
                    THEN U64(last_id + tmp.val, overflow_checks) ELSE tmp
         IN  IF id.kind # "Ok" THEN id
             ELSE decode_tile_ids(bytes, tmp.next, n - 1, id.val,
                                  Append(acc, id.val), overflow_checks)

\* read offset, one entry: 0 after the first entry means "at the end of the
\* previous entry", anything else is offset + 1.
decode_offset(i, val, prev_offset, prev_length, overflow_checks) ==
    IF i > 1 /\ val = 0
    THEN U64(prev_offset + prev_length, overflow_checks)
    ELSE U64(val - 1, overflow_checks)

\* read offset: n varints from pos, each decoded as it is read.
RECURSIVE decode_offsets(_, _, _, _, _, _)
decode_offsets(bytes, pos, n, lengths, acc, overflow_checks) ==
    IF Len(acc) = n THEN [kind |-> "Ok", val |-> acc, next |-> pos]
    ELSE LET i   == Len(acc) + 1
             val == read_varint(bytes, pos)
             o   == IF val.kind = "Ok"
                    THEN decode_offset(i, val.val,
                                       IF i > 1 THEN acc[i - 1] ELSE 0,
                                       IF i > 1 THEN lengths[i - 1] ELSE 0,
                                       overflow_checks)
                    ELSE val
         IN  IF o.kind # "Ok" THEN o
             ELSE decode_offsets(bytes, val.next, n, lengths, Append(acc, o.val),
                                 overflow_checks)

\* from_reader_impl after the last column is read: the entries.
from_reader_entries(num_entries, ids, runs, lens, offs) ==
    IF offs.kind # "Ok" THEN offs
    ELSE Ok([i \in 1 .. num_entries |-> Entry(ids[i], offs.val[i], lens.val[i], runs[i])])

\* from_reader_impl from the length column on.
from_reader_lengths(bytes, num_entries, ids, runs, lens, overflow_checks) ==
    IF lens.kind # "Ok" THEN lens
    ELSE from_reader_entries(num_entries, ids, runs, lens,
                             decode_offsets(bytes, lens.next, num_entries, lens.val,
                                            <<>>, overflow_checks))

\* from_reader_impl from the run_length column on.
from_reader_run_lengths(bytes, num_entries, ids, runs, overflow_checks) ==
    IF runs.kind # "Ok" THEN runs
    ELSE from_reader_lengths(bytes, num_entries, ids, runs.val,
                             read_column(bytes, runs.next, num_entries, <<>>),
                             overflow_checks)

\* from_reader_impl from the tile_id column on.
from_reader_tile_ids(bytes, num_entries, ids, overflow_checks) ==
    IF ids.kind # "Ok" THEN ids
    ELSE from_reader_run_lengths(bytes, num_entries, ids.val,
                                 read_column(bytes, ids.next, num_entries, <<>>),
                                 overflow_checks)

\* from_reader_impl from the number of entries on.
from_reader_num_entries(bytes, num_entries, overflow_checks) ==
    IF num_entries.kind # "Ok" THEN num_entries
    ELSE from_reader_tile_ids(bytes, num_entries.val,
                              decode_tile_ids(bytes, num_entries.next, num_entries.val,
                                              0, <<>>, overflow_checks),
                              overflow_checks)

\* from_reader_impl on the decompressed bytes.
from_reader_decompressed(plain, overflow_checks) ==
    IF plain.kind # "Ok" THEN plain
    ELSE from_reader_num_entries(plain.val, read_varint(plain.val, 1), overflow_checks)

\* Directory::from_reader_impl on the first `length` bytes of input:
\* Ok(entries), Err or Panic.
from_reader_impl(input, length, compression, overflow_checks) ==
    from_reader_decompressed(
        decompress_all(compression, SubSeq(input, 1, Min(length, Len(input)))),
        overflow_checks)

\* write tile_id: each id as the difference to the one before it.
RECURSIVE encode_tile_ids(_, _, _, _)
encode_tile_ids(entries, last_id, acc, overflow_checks) ==
    IF entries = <<>> THEN Ok(acc)
    ELSE LET d == U64(Head(entries).tile_id - last_id, overflow_checks)
         IN  IF d.kind # "Ok" THEN d
             ELSE encode_tile_ids(Tail(entries), Head(entries).tile_id,
                                  acc \o write_varint(d.val), overflow_checks)

RECURSIVE encode_column(_, _)
encode_column(values, acc) ==
    IF values = <<>> THEN acc
    ELSE encode_column(Tail(values), acc \o write_varint(Head(values)))

\* A mutant of encode_offset: never uses the sentinel.
encode_offset_no_sentinel(index, offset, next_byte, overflow_checks) ==
    U64(offset + 1, overflow_checks)

\* write offset, one entry (index counts from 0 as in the source).
encode_offset(index, offset, next_byte, overflow_checks) ==
    IF index > 0 /\ offset = next_byte
    THEN Ok(0)
    ELSE U64(offset + 1, overflow_checks)

RECURSIVE encode_offsets(_, _, _, _, _)
encode_offsets(entries, index, next_byte, acc, overflow_checks) ==
    IF index >= Len(entries) THEN Ok(acc)
    ELSE LET entry == entries[index + 1]
             val   == encode_offset(index, entry.offset, next_byte, overflow_checks)
             nb    == U64(entry.offset + entry.length, overflow_checks)
         IN  IF val.kind # "Ok" THEN val
             ELSE IF nb.kind # "Ok" THEN nb
             ELSE encode_offsets(entries, index + 1, nb.val,
                                 acc \o write_varint(val.val), overflow_checks)

\* The uncompressed stream Directory::to_writer_impl hands to the compressor.
directory_stream(entries, overflow_checks) ==
    LET ids == encode_tile_ids(entries, 0, <<>>, overflow_checks)
        offs == IF ids.kind = "Ok"
                THEN encode_offsets(entries, 0, 0, <<>>, overflow_checks) ELSE ids
    IN  IF offs.kind # "Ok" THEN Panic
        ELSE Ok(write_varint(Len(entries))
                \o ids.val
                \o encode_column([i \in 1 .. Len(entries) |-> entries[i].run_length], <<>>)
                \o encode_column([i \in 1 .. Len(entries) |-> entries[i].length], <<>>)
                \o offs.val)

\* Directory::to_writer_impl: Ok(bytes written), Err or Panic.
to_writer_impl(entries, compression, overflow_checks) ==
    IF compression = "Unknown" THEN compress_all(compression, <<>>)
    ELSE LET stream == directory_stream(entries, overflow_checks)
         IN  IF stream.kind # "Ok" THEN stream
             ELSE compress_all(compression, stream.val)

-----------------------------------------------------------------------------
(* Decoding an encoded directory and writing it again                       *)

MaxEntries == 2

DeltaVals == {1, U64Max}

RunLengthVals == {0, 1}

LengthVals == {0, 2}

\* Values of the offset column: the sentinel, two offsets + 1 and the largest u64.
OffsetColVals == {0, 1, 3, U64Max}

\* Bytes that may follow the offset column inside the directory's length.
Trailers == {<<>>, <<0>>}

IdleTM ==
    /\ tile_by_id = EmptyMap
    /\ data_by_hash = EmptyMap
    /\ ids_by_hash = EmptyMap
    /\ reader = None
    /\ shadow = EmptyMap
    /\ collided = FALSE
    /\ last = NoCall
    /\ result = None

TMVars == <<tile_by_id, data_by_hash, ids_by_hash, reader, shadow, collided,
            last, result>>

\* The varint stream of a directory given by its four columns.
ColumnStream(n, deltas, runs, lens, offs) ==
    write_varint(n) \o encode_column(deltas, <<>>) \o encode_column(runs, <<>>)
        \o encode_column(lens, <<>>) \o encode_column(offs, <<>>)

InitReencode ==
    /\ IdleTM
    /\ pc = "encoded"
    /\ out = None
    /\ \E n \in 0 .. MaxEntries :
       \E deltas \in [1 .. n -> DeltaVals], runs \in [1 .. n -> RunLengthVals],
          lens \in [1 .. n -> LengthVals], offs \in [1 .. n -> OffsetColVals],
          trailer \in Trailers, compression \in {"None", "GZip", "Unknown"},
          overflow_checks \in BOOLEAN :
          inp = [n |-> n, lens |-> lens, offs |-> offs, trailer |-> trailer,
                 stream |-> ColumnStream(n, deltas, runs, lens, offs) \o trailer,
                 compression |-> compression,
                 overflow_checks |-> overflow_checks]

\* The bytes of the directory as stored: the stream, compressed.
StoredBytes ==
    IF inp.compression = "Unknown" THEN inp.stream
    ELSE compress_all(inp.compression, inp.stream).val

DecodeDirectory ==
    /\ pc = "encoded"
    /\ pc' = "decoded"
    /\ out' = [directory |-> from_reader_impl(StoredBytes, Len(StoredBytes),
                                              inp.compression, inp.overflow_checks)]
    /\ UNCHANGED <<TMVars, inp>>

ReencodeDirectory ==
    /\ pc = "decoded"
    /\ out.directory.kind = "Ok"
    /\ pc' = "reencoded"
    /\ out' = [directory |-> out.directory,
               written |-> to_writer_impl(out.directory.val, inp.compression,
                                          inp.overflow_checks)]
    /\ UNCHANGED <<TMVars, inp>>

NextReencode == DecodeDirectory \/ ReencodeDirectory

SpecReencode == InitReencode /\ [][NextReencode]_vars

Reencoded == pc = "reencoded"

\* The decompression of what to_writer wrote is the original stream.
SameStream ==
    /\ out.written.kind = "Ok"
    /\ decompress_all(inp.compression, out.written.val) = Ok(inp.stream)

\* Every entry after the first that lies at the end of its predecessor is
\* encoded with the sentinel 0.
SentinelUsed ==
    \A i \in 2 .. inp.n :
        out.directory.val[i].offset =
            out.directory.val[i - 1].offset + out.directory.val[i - 1].length
        => inp.offs[i] = 0

\* offset + length of every entry is a u64.
EndsFit ==
    \A i \in 1 .. inp.n :
        out.directory.val[i].offset + out.directory.val[i].length <= U64Max

\* C9 as stated: for any encoded directory that from_reader decodes, to_writer
\* of the decoded directory writes a stream whose decompression is, byte for
\* byte, the decompression of the original.
C9_Reencode == Reencoded => SameStream

\* C9 as amended: the same for an encoded directory in canonical form: nothing
\* follows its offset column, every entry after the first that lies at the
\* end of its predecessor is encoded with the sentinel 0, and every offset +
\* length is a u64.
C9_ReencodeCanonical ==
    (Reencoded /\ inp.trailer = <<>> /\ SentinelUsed /\ EndsFit) => SameStream

\* C9's case: a compressed directory of two entries, the second at the end
\* of the first and encoded with the sentinel, with a two-byte varint.
C9_Witness ==
    /\ Reencoded /\ inp.trailer = <<>> /\ SentinelUsed /\ EndsFit
    /\ inp.compression = "GZip"
    /\ inp.n = 2 /\ inp.offs[2] = 0 /\ inp.lens[1] > 0
    /\ out.directory.val[2].tile_id >= 200

-----------------------------------------------------------------------------
(* src/src/util/read_directories.rs                                         *)

Unbounded == [kind |-> "Unbounded"]

Included(v) == [kind |-> "Included", val |-> v]

Excluded(v) == [kind |-> "Excluded", val |-> v]

\* RangeBounds::contains
contains(range, item) ==
    /\ CASE range.start.kind = "Included" -> range.start.val <= item
         [] range.start.kind = "Excluded" -> range.start.val < item
         [] OTHER -> TRUE
    /\ CASE range.end.kind = "Included" -> item <= range.end.val
         [] range.end.kind = "Excluded" -> item < range.end.val
         [] OTHER -> TRUE

\* The inclusive end of a range, None without an end bound. `*val - 1` is
\* u64 arithmetic.
range_end_inc(range, overflow_checks) ==
    CASE range.end.kind = "Included" -> Ok(Some(range.end.val))
      [] range.end.kind = "Excluded" ->
            LET v == U64(range.end.val - 1, overflow_checks)
            IN  IF v.kind = "Ok" THEN Ok(Some(v.val)) ELSE v
      [] OTHER -> Ok(None)

\* A mutant of is_leaf_dir_entry: no entry points to a leaf directory.
no_leaf_dir_entry(entry) == FALSE

is_leaf_dir_entry(entry) == entry.run_length = 0

\* The state of one call of read_directories: the tiles collected so far,
\* the frames of read_dir_rec (the directory of each and the next entry of
\* its loop) and the error or panic that ended the call, if any.
Walk(range, tiles, stack, status) ==
    [range |-> range, tiles |-> tiles, stack |-> stack, status |-> status]

Running == [kind |-> "Running"]

\* The head of read_dir_rec once the directory is read: take the range's
\* end and start the loop.
read_dir_rec_loop(w, directory, range_end) ==
    IF directory.kind # "Ok" THEN [w EXCEPT !.status = directory]
    ELSE IF range_end.kind # "Ok" THEN [w EXCEPT !.status = range_end]
    ELSE [w EXCEPT !.stack =
             Append(@, [directory |-> directory.val, next |-> 1,
                        range_end |-> IF range_end.val = None THEN U64Max
                                      ELSE range_end.val.val])]

\* The head of read_dir_rec: seek, read the directory, take the range's end.
read_dir_rec_enter(archive, w, dir_offset, dir_length) ==
    read_dir_rec_loop(w,
                      from_reader_impl(SubSeq(archive.bytes, dir_offset + 1,
                                              Len(archive.bytes)),
                                       dir_length, archive.compression,
                                       archive.overflow_checks),
                      range_end_inc(w.range, archive.overflow_checks))

\* A mutant of read_dir_rec_step: a leaf directory is skipped already when it
\* starts at the end of the range.
read_dir_rec_step_skip_at_end(archive, w) ==
    LET depth == Len(w.stack)
        frame == w.stack[depth]
    IN  IF frame.next > Len(frame.directory)
        THEN [w EXCEPT !.stack = SubSeq(@, 1, depth - 1)]
        ELSE
        LET entry == frame.directory[frame.next]
            w1    == [w EXCEPT !.stack[depth].next = @ + 1]
        IN  IF is_leaf_dir_entry(entry)
            THEN IF entry.tile_id >= frame.range_end THEN w1
                 ELSE LET offset == U64(archive.leaf_dir_offset + entry.offset,
                                        archive.overflow_checks)
                      IN  IF offset.kind # "Ok" THEN [w1 EXCEPT !.status = offset]
                          ELSE read_dir_rec_enter(archive, w1, offset.val, entry.length)
            ELSE LET end == U64(entry.tile_id + entry.run_length,
                                archive.overflow_checks)
                 IN  IF end.kind # "Ok" THEN [w1 EXCEPT !.status = end]
                     ELSE LET new == {t \in entry.tile_id .. end.val - 1 :
                                         contains(w.range, t)}
                          IN  [w1 EXCEPT !.tiles =
                                  [t \in DOMAIN w.tiles \cup new |->
                                      IF t \in new
                                      THEN [offset |-> entry.offset,
                                            length |-> entry.length]
                                      ELSE w.tiles[t]]]

\* One round of the loop of the innermost read_dir_rec, or its return.
read_dir_rec_step(archive, w) ==
    LET depth == Len(w.stack)
        frame == w.stack[depth]
    IN  IF frame.next > Len(frame.directory)
        THEN [w EXCEPT !.stack = SubSeq(@, 1, depth - 1)]
        ELSE
        LET entry == frame.directory[frame.next]
            w1    == [w EXCEPT !.stack[depth].next = @ + 1]
        IN  IF is_leaf_dir_entry(entry)
            THEN IF entry.tile_id > frame.range_end THEN w1
                 ELSE LET offset == U64(archive.leaf_dir_offset + entry.offset,
                                        archive.overflow_checks)
                      IN  IF offset.kind # "Ok" THEN [w1 EXCEPT !.status = offset]
                          ELSE read_dir_rec_enter(archive, w1, offset.val, entry.length)
            ELSE LET end == U64(entry.tile_id + entry.run_length,
                                archive.overflow_checks)
                 IN  IF end.kind # "Ok" THEN [w1 EXCEPT !.status = end]
                     ELSE LET new == {t \in entry.tile_id .. end.val - 1 :
                                         contains(w.range, t)}
                          IN  [w1 EXCEPT !.tiles =
                                  [t \in DOMAIN w.tiles \cup new |->
                                      IF t \in new
                                      THEN [offset |-> entry.offset,
                                            length |-> entry.length]
                                      ELSE w.tiles[t]]]

-----------------------------------------------------------------------------
(* Archives for read_directories, and its calls                             *)

MaxWalkId == 2

WalkIds == 0 .. MaxWalkId

\* Entries per leaf directory and levels of leaf directories below the root.
LeafSizes == {1, 2}

LeafLevels == {0, 1, 2}

TileLength == 3

\* The entries of the tiles ids, in order: all of one content (shared), or
\* each of its own.
RECURSIVE tile_entries(_, _, _)
tile_entries(ids, shared, entries) ==
    IF ids = <<>> THEN entries
    ELSE tile_entries(Tail(ids), shared,
                      push_entry(entries, Head(ids),
                                 IF shared THEN 0 ELSE TileLength * Head(ids),
                                 TileLength))

\* Leaf directories of leaf_size entries each, appended to leaf_dir_bytes,
\* and the entries that point to them.
RECURSIVE leaf_directories(_, _, _, _, _)
RECURSIVE leaf_directory(_, _, _, _, _, _, _)
leaf_directory(all_entries, leaf_size, compression, root_entries, leaf_dir_bytes, size, written) ==
    leaf_directories(SubSeq(all_entries, size + 1, Len(all_entries)),
                     leaf_size, compression,
                     Append(root_entries,
                            Entry(all_entries[1].tile_id, Len(leaf_dir_bytes),
                                  Len(written), 0)),
                     leaf_dir_bytes \o written)

leaf_directories(all_entries, leaf_size, compression, root_entries, leaf_dir_bytes) ==
    IF all_entries = <<>>
    THEN [root_entries |-> root_entries, leaf_dir_bytes |-> leaf_dir_bytes]
    ELSE leaf_directory(all_entries, leaf_size, compression, root_entries,
                        leaf_dir_bytes, Min(leaf_size, Len(all_entries)),
                        to_writer_impl(SubSeq(all_entries, 1,
                                              Min(leaf_size, Len(all_entries))),
                                       compression, FALSE).val)

\* levels times, move the entries to leaf directories and keep the pointers.
RECURSIVE leaf_levels(_, _, _, _)
leaf_levels(layout, leaf_size, compression, levels) ==
    IF levels = 0 THEN layout
    ELSE leaf_levels(leaf_directories(layout.root_entries, leaf_size, compression,
                                      <<>>, layout.leaf_dir_bytes),
                     leaf_size, compression, levels - 1)

\* An archive of its root directory (at offset 0) and the leaf directories
\* behind it.
ArchiveOf(root, leaf_dir_bytes, compression, overflow_checks) ==
    [bytes |-> root \o leaf_dir_bytes,
     compression |-> compression,
     root_dir_offset_length |-> <<0, Len(root)>>,
     leaf_dir_offset |-> Len(root),
     overflow_checks |-> overflow_checks]

ArchiveOfLayout(layout, compression, overflow_checks) ==
    ArchiveOf(to_writer_impl(layout.root_entries, compression, FALSE).val,
              layout.leaf_dir_bytes, compression, overflow_checks)

\* The directories of an archive of the tiles ids.
Archive(ids, shared, leaf_size, levels, compression, overflow_checks) ==
    ArchiveOfLayout(leaf_levels([root_entries |-> tile_entries(SortedSeq(ids), shared, <<>>),
                                 leaf_dir_bytes |-> <<>>],
                                leaf_size, compression, levels),
                    compression, overflow_checks)

Bounds == {Unbounded} \cup {Included(v) : v \in WalkIds} \cup {Excluded(v) : v \in WalkIds}

Ranges == [start : Bounds, end : Bounds]

FullRange == [start |-> Unbounded, end |-> Unbounded]

InitWalk ==
    /\ IdleTM
    /\ pc = "archive"
    /\ out = [full |-> None, part |-> None, walk |-> None]
    /\ \E ids \in SUBSET WalkIds, shared \in BOOLEAN, leaf_size \in LeafSizes,
          levels \in LeafLevels, compression \in {"None", "GZip"},
          overflow_checks \in BOOLEAN :
          inp = Archive(ids, shared, leaf_size, levels, compression, overflow_checks)
                @@ [data_entries |-> tile_entries(SortedSeq(ids), shared, <<>>),
                    levels |-> levels]

\* read_directories up to its first read_dir_rec.
read_directories(archive, filter_range) ==
    read_dir_rec_enter(archive, Walk(filter_range, EmptyMap, <<>>, Running),
                       archive.root_dir_offset_length[1],
                       archive.root_dir_offset_length[2])

\* read_directories(.., ..): every tile of the archive.
ReadDirectoriesFull ==
    /\ pc = "archive"
    /\ out.full = None
    /\ pc' = "full"
    /\ out' = [out EXCEPT !.walk = read_directories(inp, FullRange)]
    /\ UNCHANGED <<TMVars, inp>>

\* read_directories(.., filter_range).
ReadDirectoriesPartially ==
    /\ pc = "archive"
    /\ out.full # None
    /\ out.part = None
    /\ \E filter_range \in Ranges :
          out' = [out EXCEPT !.walk = read_directories(inp, filter_range)]
    /\ pc' = "part"
    /\ UNCHANGED <<TMVars, inp>>

ReadDirRec ==
    /\ pc \in {"full", "part"}
    /\ out.walk.status = Running
    /\ out.walk.stack # <<>>
    /\ out' = [out EXCEPT !.walk = read_dir_rec_step(inp, @)]
    /\ UNCHANGED <<TMVars, inp, pc>>

\* The call is over: Ok(tiles), or the error or panic that ended it.
ReadDirectoriesReturn ==
    /\ pc \in {"full", "part"}
    /\ out.walk.status # Running \/ out.walk.stack = <<>>
    /\ LET ret == [range |-> out.walk.range,
                   result |-> IF out.walk.status = Running
                              THEN Ok(out.walk.tiles) ELSE out.walk.status]
       IN  out' = [out EXCEPT ![pc] = ret, !.walk = None]
    /\ pc' = "archive"
    /\ UNCHANGED <<TMVars, inp>>

NextWalk ==
    \/ ReadDirectoriesFull
    \/ ReadDirectoriesPartially
    \/ ReadDirRec
    \/ ReadDirectoriesReturn

SpecWalk == InitWalk /\ [][NextWalk]_vars

BothRead == pc = "archive" /\ out.full # None /\ out.part # None

\* The tiles of the partial call are those of the full call inside the range.
FilteredTiles ==
    LET all == out.full.result.val
        got == out.part.result.val
    IN  /\ DOMAIN got = {t \in DOMAIN all : contains(out.part.range, t)}
        /\ \A t \in DOMAIN got : got[t] = all[t]

\* C6 as stated: for every valid archive and every range, read_directories
\* succeeds and returns the tiles of the unbounded call whose id lies in the
\* range, each with the same offset and length.
C6_FilterSound ==
    BothRead => /\ out.full.result.kind = "Ok"
                /\ out.part.result.kind = "Ok"
                /\ FilteredTiles

\* Whenever the partial call returns Ok, its tiles are the filtered tiles.
FilterSoundWhenOk ==
    (BothRead /\ out.part.result.kind = "Ok")
        => (out.full.result.kind = "Ok" /\ FilteredTiles)

\* The partial call fails only by the panic of `..0` under overflow checks.
PanicOnlyAtExcludedZero ==
    (BothRead /\ out.part.result.kind # "Ok")
        => /\ out.part.result = Panic
           /\ out.part.range.end = Excluded(0)
           /\ inp.overflow_checks

\* C6's case: a read up to an exclusive end of an archive with leaf
\* directories, that returns some but not all tiles.
C6_Witness ==
    /\ BothRead
    /\ out.part.result.kind = "Ok"
    /\ out.part.range.end.kind = "Excluded"
    /\ inp.leaf_dir_offset < Len(inp.bytes)
    /\ DOMAIN out.part.result.val # {}
    /\ DOMAIN out.part.result.val # DOMAIN out.full.result.val

-----------------------------------------------------------------------------
(* src/src/util/write_directories.rs, on the lengths of what is written     *)

HEADER_BYTES == 127

MAX_ROOT_DIR_LENGTH == 16384 - HEADER_BYTES

\* The sum of s[lo .. hi].
RECURSIVE SumRange(_, _, _)
SumRange(s, lo, hi) ==
    IF lo > hi THEN 0
    ELSE IF lo = hi THEN s[lo]
    ELSE LET mid == (lo + hi) \div 2
         IN  SumRange(s, lo, mid) + SumRange(s, mid + 1, hi)

\* The positions at which pieces of the lengths s[lo .. hi] start when they
\* are written one after the other from position base.
RECURSIVE StartPositions(_, _, _, _)
StartPositions(s, lo, hi, base) ==
    IF lo > hi THEN <<>>
    ELSE IF lo = hi THEN <<base>>
    ELSE LET mid == (lo + hi) \div 2
         IN  StartPositions(s, lo, mid, base)
                 \o StartPositions(s, mid + 1, hi, base + SumRange(s, lo, mid))

varint_len(value) == Len(write_varint(value))

\* The number of bytes of directory_stream(entries): Ok(length) or Panic.
stream_length(entries, overflow_checks) ==
    LET n == Len(entries)
        deltas == [i \in 1 .. n |->
                      U64(entries[i].tile_id
                              - (IF i > 1 THEN entries[i - 1].tile_id ELSE 0),
                          overflow_checks)]
        next_byte == [i \in 1 .. n |->
                         U64(entries[i].offset + entries[i].length, overflow_checks)]
        vals == [i \in 1 .. n |->
                    encode_offset(i - 1, entries[i].offset,
                                  IF i > 1 /\ next_byte[i - 1].kind = "Ok"
                                  THEN next_byte[i - 1].val ELSE 0,
                                  overflow_checks)]
    IN  IF \E i \in 1 .. n : \/ deltas[i].kind # "Ok"
                             \/ next_byte[i].kind # "Ok"
                             \/ vals[i].kind # "Ok"
        THEN Panic
        ELSE Ok(varint_len(n)
                + SumRange([i \in 1 .. n |->
                               varint_len(deltas[i].val)
                               + varint_len(entries[i].run_length)
                               + varint_len(entries[i].length)
                               + varint_len(vals[i].val)], 1, n))

\* The number of bytes compress_all makes of length bytes.
compressed_length(compression, length) ==
    CASE compression = "Unknown" -> Err("Cannot compress for Compression Unknown")
      [] compression = "None" -> Ok(length)
      [] OTHER -> Ok(1 + length)

\* The number of bytes Directory::to_writer writes: Ok(length), Err or Panic.
directory_length(entries, compression, overflow_checks) ==
    IF compression = "Unknown" THEN compressed_length(compression, 0)
    ELSE LET stream == stream_length(entries, overflow_checks)
         IN  IF stream.kind # "Ok" THEN stream
             ELSE compressed_length(compression, stream.val)

\* The lengths are those of the bytes to_writer_impl writes (of the
\* directories decoded and written again).
LengthOfWritten ==
    Reencoded =>
        LET length == directory_length(out.directory.val, inp.compression,
                                       inp.overflow_checks)
        IN  /\ length.kind = out.written.kind
            /\ length.kind = "Ok" => length.val = Len(out.written.val)

\* A mutant of root_fits: the header's bytes are not taken off the 16 KiB.
root_fits_without_header(root_directory_length) ==
    root_directory_length <= 16384

root_fits(root_directory_length) ==
    root_directory_length <= MAX_ROOT_DIR_LENGTH

\* One round of the loop of only_leaf_pointer_strategy: the leaf directories
\* of leaf_size entries each, the root directory that points to them, and
\* the lengths of both. all_entries.chunks(0) panics. No leaf directory of
\* the entries used here has 2^32 bytes, so `as u32` leaves its length as it
\* is.
leaf_pointer_round(all_entries, compression, leaf_size, overflow_checks) ==
    IF leaf_size = 0 THEN Panic
    ELSE
    LET n       == Len(all_entries)
        chunks  == (n + leaf_size - 1) \div leaf_size
        chunk(k) == [j \in 1 .. Min(leaf_size, n - (k - 1) * leaf_size) |->
                        all_entries[(k - 1) * leaf_size + j]]
        lengths == [k \in 1 .. chunks |->
                       directory_length(chunk(k), compression, overflow_checks)]
    IN  IF \E k \in 1 .. chunks : lengths[k].kind # "Ok"
        THEN lengths[CHOOSE k \in 1 .. chunks :
                        /\ lengths[k].kind # "Ok"
                        /\ \A j \in 1 .. k - 1 : lengths[j].kind = "Ok"]
        ELSE
        LET sizes   == [k \in 1 .. chunks |-> lengths[k].val]
            offsets == StartPositions(sizes, 1, chunks, 0)
            root_entries == [k \in 1 .. chunks |->
                                Entry(all_entries[(k - 1) * leaf_size + 1].tile_id,
                                      offsets[k], sizes[k], 0)]
            root    == directory_length(root_entries, compression, overflow_checks)
        IN  IF root.kind # "Ok" THEN root
            ELSE Ok([root_directory_length |-> root.val,
                     leaf_dir_bytes |-> SumRange(sizes, 1, chunks)])

-----------------------------------------------------------------------------
(* Calls of write_directories                                               *)

\* Numbers of entries: none, one, the most whose root directory fits without
\* compression, one more, and enough for a root directory of leaf pointers
\* not to fit.
EntryCounts == {0, 1, 2322, 2323, 4100}

StartSizes == {None, Some(0), Some(1), Some(2)}

\* n entries of one tile each, of two contents in turn. No arithmetic on
\* them overflows, so one build stands for both.
all_entries(n) ==
    [i \in 1 .. n |-> Entry(i - 1, 16384 + 1000 * ((i - 1) % 2), 200, 1)]

InitSplit ==
    /\ IdleTM
    /\ pc = "entries"
    /\ out = [result |-> None, root_directory_length |-> 0, leaf_size |-> 0]
    /\ \E n \in EntryCounts, start_size \in StartSizes,
          compression \in Compressions :
          inp = [n |-> n, start_size |-> start_size, compression |-> compression,
                 overflow_checks |-> TRUE]

\* write_directories_impl: the root directory of all entries, and whether it
\* fits.
WriteRootDirectory ==
    /\ pc = "entries"
    /\ LET root == directory_length(all_entries(inp.n), inp.compression,
                                    inp.overflow_checks)
       IN  IF root.kind # "Ok"
           THEN /\ out' = [out EXCEPT !.result = root]
                /\ pc' = "returned"
           ELSE IF root_fits(root.val)
           THEN /\ out' = [out EXCEPT !.result = Ok(0),
                                      !.root_directory_length = root.val]
                /\ pc' = "returned"
           ELSE /\ out' = [out EXCEPT !.root_directory_length = root.val,
                                      !.leaf_size = IF inp.start_size = None THEN 4096
                                                    ELSE inp.start_size.val]
                /\ pc' = "overflow"
    /\ UNCHANGED <<TMVars, inp>>

\* only_leaf_pointer_strategy, one round of its loop.
OnlyLeafPointers ==
    /\ pc = "overflow"
    /\ LET round == leaf_pointer_round(all_entries(inp.n), inp.compression,
                                       out.leaf_size, inp.overflow_checks)
       IN  IF round.kind # "Ok"
           THEN /\ out' = [out EXCEPT !.result = round]
                /\ pc' = "returned"
           ELSE IF root_fits(round.val.root_directory_length)
           THEN /\ out' = [out EXCEPT
                              !.result = Ok(round.val.leaf_dir_bytes),
                              !.root_directory_length = round.val.root_directory_length]
                /\ pc' = "returned"
           ELSE /\ out' = [out EXCEPT
                              !.root_directory_length = round.val.root_directory_length,
                              !.leaf_size = @ * 2]
                /\ pc' = "overflow"
    /\ UNCHANGED <<TMVars, inp>>

NextSplit == WriteRootDirectory \/ OnlyLeafPointers

SpecSplit == InitSplit /\ [][NextSplit]_vars

ReturnedOk == pc = "returned" /\ out.result.kind = "Ok"

\* C7: whenever write_directories returns Ok, the root directory it left in
\* the output has at most 16384 - 127 = 16257 bytes, whatever the entries and
\* the compression.
C7_RootFits == ReturnedOk => out.root_directory_length <= 16257

\* C7's case: a compressed root directory of leaf pointers that fits only
\* after the leaf size was doubled.
C7_Witness ==
    /\ ReturnedOk
    /\ inp.compression \notin {"None", "Unknown"}
    /\ inp.start_size = Some(1)
    /\ out.leaf_size = 2
    /\ out.result.val > 0
    /\ out.root_directory_length <= 16257

-----------------------------------------------------------------------------
(* src/src/util/tile_id.rs                                                  *)

\* One more than the largest zoom level: 32 for tile ids of 64 bits, here
\* half the bits of the model's u64.
MAX_Z == U64Bits \div 2

\* hilbert_2d's rotation of a quadrant of a square of side n.
rot(n, x, y, rx, ry) ==
    IF ry = 0
    THEN IF rx = 1 THEN <<n - 1 - y, n - 1 - x>> ELSE <<y, x>>
    ELSE <<x, y>>

RECURSIVE xy2h_from(_, _, _, _, _)
xy2h_from(n, x, y, s, d) ==
    IF s = 0 THEN d
    ELSE LET rx == (x \div s) % 2
             ry == (y \div s) % 2
             p  == rot(n, x, y, rx, ry)
         IN  xy2h_from(n, p[1], p[2], s \div 2,
                       d + s * s * (IF rx = 1 THEN 3 - ry ELSE ry))

\* hilbert_2d::xy2h_discrete(x, y, order, Variant::Hilbert)
xy2h_discrete(x, y, order) ==
    xy2h_from(Pow(2, order), x, y, Pow(2, order) \div 2, 0)

RECURSIVE h2xy_from(_, _, _, _, _)
h2xy_from(n, t, x, y, s) ==
    IF s >= n THEN <<x, y>>
    ELSE LET rx == (t \div 2) % 2
             ry == (t + rx) % 2
             p  == rot(s, x, y, rx, ry)
         IN  h2xy_from(n, t \div 4, p[1] + s * rx, p[2] + s * ry, s * 2)

\* hilbert_2d::h2xy_discrete(h, order, Variant::Hilbert)
h2xy_discrete(h, order) == h2xy_from(Pow(2, order), h, 0, 0, 1)

\* 1 + (1..z).map(|i| 4u64.pow(i)).sum::<u64>()
RECURSIVE base_id_from(_, _, _, _)
base_id_from(z, i, acc, overflow_checks) ==
    IF i >= z THEN U64(1 + acc, overflow_checks)
    ELSE LET sum == U64(acc + Pow(4, i), overflow_checks)
         IN  IF sum.kind # "Ok" THEN sum
             ELSE base_id_from(z, i + 1, sum.val, overflow_checks)

base_id(z, overflow_checks) == base_id_from(z, 1, 0, overflow_checks)

tile_id(z, x, y, overflow_checks) ==
    IF z = 0 THEN Ok(0)
    ELSE LET base == base_id(z, overflow_checks)
         IN  IF base.kind # "Ok" THEN base
             ELSE U64(base.val + xy2h_discrete(x, y, z), overflow_checks)

\* A mutant of find_z_from: the zoom ends at its first id.
RECURSIVE find_z_from_first_id(_, _, _, _)
find_z_from_first_id(tile, i, acc, overflow_checks) ==
    IF i >= MAX_Z THEN Err("MaxZError")
    ELSE LET sum == U64(acc + Pow(4, i), overflow_checks)
         IN  IF sum.kind # "Ok" THEN sum
             ELSE IF sum.val >= tile THEN Ok(i)
             ELSE find_z_from_first_id(tile, i + 1, sum.val, overflow_checks)

\* A mutant of find_z_from: the loop runs through MAX_Z.
RECURSIVE find_z_from_through_max(_, _, _, _)
find_z_from_through_max(tile, i, acc, overflow_checks) ==
    IF i > MAX_Z THEN Err("MaxZError")
    ELSE LET sum == U64(acc + Pow(4, i), overflow_checks)
         IN  IF sum.kind # "Ok" THEN sum
             ELSE IF sum.val > tile THEN Ok(i)
             ELSE find_z_from_through_max(tile, i + 1, sum.val, overflow_checks)

\* The loop of find_z from round i on.
RECURSIVE find_z_from(_, _, _, _)
find_z_from(tile, i, acc, overflow_checks) ==
    IF i >= MAX_Z THEN Err("MaxZError")
    ELSE LET sum == U64(acc + Pow(4, i), overflow_checks)
         IN  IF sum.kind # "Ok" THEN sum
             ELSE IF sum.val > tile THEN Ok(i)
             ELSE find_z_from(tile, i + 1, sum.val, overflow_checks)

find_z(tile, overflow_checks) == find_z_from(tile, 1, 1, overflow_checks)

zxy(tile, overflow_checks) ==
    IF tile = 0 THEN Ok(<<0, 0, 0>>)
    ELSE LET z == find_z(tile, overflow_checks)
         IN  IF z.kind # "Ok" THEN z
             ELSE LET base == base_id(z.val, overflow_checks)
                      h    == IF base.kind = "Ok"
                              THEN U64(tile - base.val, overflow_checks) ELSE base
                  IN  IF h.kind # "Ok" THEN h
                      ELSE Ok(<<z.val>> \o h2xy_discrete(h.val, z.val))

InitTileId ==
    /\ IdleTM
    /\ pc = "zxy"
    /\ out = [tile_id |-> None, zxy |-> None]
    /\ \E z \in 0 .. MAX_Z - 1, overflow_checks \in BOOLEAN :
       \E x \in 0 .. Pow(2, z) - 1, y \in 0 .. Pow(2, z) - 1 :
          inp = [z |-> z, x |-> x, y |-> y, overflow_checks |-> overflow_checks]

TileId ==
    /\ pc = "zxy"
    /\ pc' = "tile_id"
    /\ out' = [out EXCEPT !.tile_id = tile_id(inp.z, inp.x, inp.y, inp.overflow_checks)]
    /\ UNCHANGED <<TMVars, inp>>

Zxy ==
    /\ pc = "tile_id"
    /\ out.tile_id.kind = "Ok"
    /\ pc' = "back"
    /\ out' = [out EXCEPT !.zxy = zxy(out.tile_id.val, inp.overflow_checks)]
    /\ UNCHANGED <<TMVars, inp>>

NextTileId == TileId \/ Zxy

SpecTileId == InitTileId /\ [][NextTileId]_vars

\* C8: for every zoom below the largest and every x and y of that zoom,
\* tile_id returns and zxy of its result is Ok((z, x, y)).
C8_TileIdRoundTrip ==
    /\ pc = "tile_id" => out.tile_id.kind = "Ok"
    /\ pc = "back" => out.zxy = Ok(<<inp.z, inp.x, inp.y>>)

\* The ids the source's tests name.
TileIdTestVectors ==
    /\ tile_id(1, 0, 0, TRUE) = Ok(1)
    /\ tile_id(1, 0, 1, TRUE) = Ok(2)
    /\ tile_id(1, 1, 1, TRUE) = Ok(3)
    /\ tile_id(1, 1, 0, TRUE) = Ok(4)
    /\ tile_id(2, 0, 0, TRUE) = Ok(5)
    /\ zxy(5, TRUE) = Ok(<<2, 0, 0>>)

\* C8's case: the last tile of the largest zoom has come back from its id,
\* the largest id there is.
C8_Witness ==
    /\ pc = "back"
    /\ inp.z = MAX_Z - 1
    /\ inp.x = Pow(2, inp.z) - 1
    /\ inp.y = 0
    /\ out.zxy = Ok(<<inp.z, inp.x, inp.y>>)

-----------------------------------------------------------------------------
(* src/src/header/mod.rs and src/src/header/lat_lng.rs                      *)

\* b"PMTiles"
Magic == <<80, 77, 84, 105, 108, 101, 115>>

CompressionIds == <<"Unknown", "None", "GZip", "Brotli", "ZStd">>

TileTypeIds == <<"Unknown", "Mvt", "Png", "Jpeg", "WebP">>

\* The u8 of an enum variant, and the variant of a u8.
enum_id(ids, variant) == (CHOOSE i \in 1 .. Len(ids) : ids[i] = variant) - 1

enum_variant(ids, id) == IF id < Len(ids) THEN Ok(ids[id + 1]) ELSE Err("DekuError")

\* The width little-endian bytes of an integer, negative ones in two's
\* complement.
RECURSIVE le_bytes(_, _)
le_bytes(value, width) ==
    IF width = 0 THEN <<>>
    ELSE <<value % 256>> \o le_bytes(value \div 256, width - 1)

\* The unsigned integer of little-endian bytes.
RECURSIVE from_le_bytes(_)
from_le_bytes(bytes) ==
    IF bytes = <<>> THEN 0
    ELSE Head(bytes) + 256 * from_le_bytes(Tail(bytes))

\* The i32 of four little-endian bytes.
i32_from_le_bytes(bytes) ==
    from_le_bytes(SubSeq(bytes, 1, 3))
        + 16777216 * (IF bytes[4] >= 128 THEN bytes[4] - 256 ELSE bytes[4])

\* An f64 of degrees, by where it lies among the multiples of 10^-7: the
\* f64 quotient ticks / 10^7 itself, or (between) some f64 further from zero
\* than that and nearer than the next multiple.
F64(ticks, between) == [ticks |-> ticks, between |-> between]

\* Some of the integers v whose quotient v / 10^7, multiplied by 10^7 again
\* in f64, comes out nearer to zero than v: 21 / 10^7 * 10^7 is
\* 20.999999999999996.
ShortTicks == {21, 42, 57}

Abs(v) == IF v < 0 THEN 0 - v ELSE v

Sign(v) == IF v < 0 THEN 0 - 1 ELSE IF v > 0 THEN 1 ELSE 0

\* (field * LAT_LONG_FACTOR) as i32: the f64 product, cut off toward zero.
to_i32(field) ==
    IF ~field.between /\ Abs(field.ticks) \in ShortTicks
    THEN field.ticks - Sign(field.ticks)
    ELSE field.ticks

write_lat_lon(field) == le_bytes(to_i32(field), 4)

\* f64::from(value) / LAT_LONG_FACTOR
read_lat_lon(bytes) == F64(i32_from_le_bytes(bytes), FALSE)

LatLng(longitude, latitude) == [longitude |-> longitude, latitude |-> latitude]

\* A mutant of write_lat_lng: latitude first.
write_lat_lng_latitude_first(pos) ==
    write_lat_lon(pos.latitude) \o write_lat_lon(pos.longitude)

write_lat_lng(pos) == write_lat_lon(pos.longitude) \o write_lat_lon(pos.latitude)

read_lat_lng(bytes) ==
    LatLng(read_lat_lon(SubSeq(bytes, 1, 4)), read_lat_lon(SubSeq(bytes, 5, 8)))

\* The u64 fields of the header, in the order of the struct.
U64Fields ==
    <<"root_directory_offset", "root_directory_length", "json_metadata_offset",
      "json_metadata_length", "leaf_directories_offset", "leaf_directories_length",
      "tile_data_offset", "tile_data_length", "num_addressed_tiles",
      "num_tile_entries", "num_tile_content">>

RECURSIVE write_u64_fields(_, _)
write_u64_fields(h, i) ==
    IF i > Len(U64Fields) THEN <<>>
    ELSE le_bytes(h[U64Fields[i]], 8) \o write_u64_fields(h, i + 1)

\* Header::to_writer: Ok(the bytes written) or Err.
header_to_writer(h) ==
    IF h.spec_version # 3 THEN Err("DekuError")
    ELSE Ok(Magic \o <<h.spec_version>> \o write_u64_fields(h, 1)
            \o <<IF h.clustered THEN 1 ELSE 0>>
            \o <<enum_id(CompressionIds, h.internal_compression),
                 enum_id(CompressionIds, h.tile_compression),
                 enum_id(TileTypeIds, h.tile_type)>>
            \o <<h.min_zoom, h.max_zoom>>
            \o write_lat_lng(h.min_pos) \o write_lat_lng(h.max_pos)
            \o <<h.center_zoom>> \o write_lat_lng(h.center_pos))

\* Header::from_reader: Ok(the header) or Err.
header_from_reader(input) ==
    IF Len(input) < HEADER_BYTES THEN Err("UnexpectedEof")
    ELSE
    LET buf == SubSeq(input, 1, HEADER_BYTES)
        u64_at(i) == from_le_bytes(SubSeq(buf, 1 + 8 * i, 8 + 8 * i))
        internal_compression == enum_variant(CompressionIds, buf[98])
        tile_compression == enum_variant(CompressionIds, buf[99])
        tile_type == enum_variant(TileTypeIds, buf[100])
    IN  IF \/ SubSeq(buf, 1, 7) # Magic
           \/ buf[8] # 3
           \/ internal_compression.kind # "Ok"
           \/ tile_compression.kind # "Ok"
           \/ tile_type.kind # "Ok"
        THEN Err("DekuError")
        ELSE Ok([f \in {U64Fields[i] : i \in 1 .. Len(U64Fields)} |->
                    u64_at((CHOOSE i \in 1 .. Len(U64Fields) : U64Fields[i] = f))]
                @@ [spec_version |-> buf[8],
                    clustered |-> buf[97] # 0,
                    internal_compression |-> internal_compression.val,
                    tile_compression |-> tile_compression.val,
                    tile_type |-> tile_type.val,
                    min_zoom |-> buf[101],
                    max_zoom |-> buf[102],
                    min_pos |-> read_lat_lng(SubSeq(buf, 103, 110)),
                    max_pos |-> read_lat_lng(SubSeq(buf, 111, 118)),
                    center_zoom |-> buf[119],
                    center_pos |-> read_lat_lng(SubSeq(buf, 120, 127))])

-----------------------------------------------------------------------------
(* Writing a header and reading it back                                     *)

\* Coordinates: 0, the limits of longitude and latitude, multiples of 10^-7
\* that survive the f64 product and that do not, and values in between.
Coordinates ==
    <<F64(0, FALSE), F64(0 - 1800000000, FALSE), F64(1800000000, FALSE),
      F64(0 - 850000000, FALSE), F64(850000000, FALSE), F64(20, FALSE),
      F64(21, FALSE), F64(0 - 42, FALSE), F64(20, TRUE), F64(0 - 3, TRUE),
      F64(0, TRUE)>>

\* The k-th coordinate after the first, around the list.
Coordinate(first, k) == Coordinates[((first + k - 1) % Len(Coordinates)) + 1]

\* The values of the first u64 field; each further field is one larger.
U64Seeds == {0, 127, 715657}

Zooms == {<<0, 0, 0>>, <<0, 3, 1>>, <<4, 255, 200>>}

InitHeader ==
    /\ IdleTM
    /\ pc = "header"
    /\ out = [written |-> None, read |-> None]
    /\ \E seed \in U64Seeds, clustered \in BOOLEAN,
          internal_compression \in Compressions,
          tile_compression \in {"None", "ZStd"},
          tile_type \in {"Unknown", "Mvt", "WebP"},
          zooms \in Zooms, first \in 1 .. Len(Coordinates) :
          inp = [f \in {U64Fields[i] : i \in 1 .. Len(U64Fields)} |->
                    seed + (CHOOSE i \in 1 .. Len(U64Fields) : U64Fields[i] = f)]
                @@ [spec_version |-> 3,
                    clustered |-> clustered,
                    internal_compression |-> internal_compression,
                    tile_compression |-> tile_compression,
                    tile_type |-> tile_type,
                    min_zoom |-> zooms[1],
                    max_zoom |-> zooms[2],
                    min_pos |-> LatLng(Coordinate(first, 0), Coordinate(first, 1)),
                    max_pos |-> LatLng(Coordinate(first, 2), Coordinate(first, 3)),
                    center_zoom |-> zooms[3],
                    center_pos |-> LatLng(Coordinate(first, 4), Coordinate(first, 5))]

HeaderToWriter ==
    /\ pc = "header"
    /\ pc' = "written"
    /\ out' = [out EXCEPT !.written = header_to_writer(inp)]
    /\ UNCHANGED <<TMVars, inp>>

HeaderFromReader ==
    /\ pc = "written"
    /\ out.written.kind = "Ok"
    /\ pc' = "read"
    /\ out' = [out EXCEPT !.read = header_from_reader(out.written.val)]
    /\ UNCHANGED <<TMVars, inp>>

NextHeader == HeaderToWriter \/ HeaderFromReader

SpecHeader == InitHeader /\ [][NextHeader]_vars

Positions == {"min_pos", "max_pos", "center_pos"}

\* to_writer wrote 127 bytes.
WroteHeaderBytes ==
    pc \in {"written", "read"}
        => (out.written.kind = "Ok" /\ Len(out.written.val) = 127)

\* from_reader returned a header whose fields other than the positions are
\* those of the header written.
SameBesidesPositions ==
    /\ out.read.kind = "Ok"
    /\ DOMAIN out.read.val = DOMAIN inp
    /\ \A f \in DOMAIN inp \ Positions : out.read.val[f] = inp[f]

\* What comes back for the coordinate c: the multiple of 10^-7 that c * 10^7,
\* computed in f64 and cut off toward zero, names.
ReadBack(c, r) ==
    /\ ~r.between
    /\ r.ticks = IF ~c.between /\ Abs(c.ticks) \in ShortTicks
                 THEN c.ticks - Sign(c.ticks) ELSE c.ticks

\* c * 10^7, computed in f64, is an integer and c its quotient by 10^7.
Survives(c) == ~c.between /\ Abs(c.ticks) \notin ShortTicks

\* C10 as stated: to_writer emits 127 bytes and from_reader on them returns
\* a header equal to the one written in every field, the positions included.
C10_HeaderRoundTrip ==
    /\ WroteHeaderBytes
    /\ pc = "read" => out.read = Ok(inp)

\* C10 as amended: to_writer emits 127 bytes and from_reader on them returns
\* a header equal in every field but the positions; each longitude and
\* latitude c comes back as the f64 product c * 10^7 cut off toward zero,
\* over 10^7, which is c where that product is an integer and c its quotient.
C10_HeaderRoundTripTruncated ==
    /\ WroteHeaderBytes
    /\ pc = "read" =>
          /\ SameBesidesPositions
          /\ \A p \in Positions :
                /\ ReadBack(inp[p].longitude, out.read.val[p].longitude)
                /\ ReadBack(inp[p].latitude, out.read.val[p].latitude)
                /\ Survives(inp[p].longitude)
                      => out.read.val[p].longitude = inp[p].longitude
                /\ Survives(inp[p].latitude)
                      => out.read.val[p].latitude = inp[p].latitude

\* The bytes of -180.0 and 180.0 in the source's tests.
LatLonTestVectors ==
    /\ write_lat_lon(F64(0 - 1800000000, FALSE)) = <<0, 46, 182, 148>>
    /\ read_lat_lon(<<0, 210, 73, 107>>) = F64(1800000000, FALSE)

\* C10's case: a header with limits of longitude and latitude among its
\* positions has been written and read back equal.
C10_Witness ==
    /\ pc = "read"
    /\ inp.max_pos = LatLng(F64(1800000000, FALSE), F64(0 - 850000000, FALSE))
    /\ \A p \in Positions : Survives(inp[p].longitude) /\ Survives(inp[p].latitude)
    /\ inp.clustered
    /\ inp.root_directory_offset = 128
    /\ out.read = Ok(inp)

-----------------------------------------------------------------------------
(* src/src/util/write_directories.rs, on the bytes that are written         *)

\* The model's MAX_ROOT_DIR_LENGTH where directories are held as bytes; the
\* program's is 16384 - 127.
RootDirLimit == 12

\* What write_directories does: each root directory it writes at start_pos,
\* in order (the last one is the root directory of the archive), and the
\* leaf directory section it returns.
Written(roots, leaf_dir_bytes) ==
    [kind |-> "Ok", roots |-> roots, val |-> leaf_dir_bytes]

\* The for loop of only_leaf_pointer_strategy over entries.chunks(leaf_size):
\* Ok(root_entries, leaf_dir_bytes), or the panic of a leaf directory's to_writer.
RECURSIVE leaf_chunks(_, _, _, _, _, _)
RECURSIVE leaf_chunk(_, _, _, _, _, _, _)
\* A mutant of leaf_chunk: every pointer has the offset 0.
leaf_chunk_at_zero(entries, leaf_size, compression, root_entries, leaf_dir_bytes, written, overflow_checks) ==
    IF written.kind # "Ok" THEN written
    ELSE leaf_chunks(SubSeq(entries, Min(leaf_size, Len(entries)) + 1,
                            Len(entries)),
                     leaf_size, compression,
                     Append(root_entries,
                            Entry(entries[1].tile_id, 0,
                                  Len(written.val) % U32Modulus, 0)),
                     leaf_dir_bytes \o written.val, overflow_checks)

leaf_chunk(entries, leaf_size, compression, root_entries, leaf_dir_bytes, written, overflow_checks) ==
    IF written.kind # "Ok" THEN written
    ELSE leaf_chunks(SubSeq(entries, Min(leaf_size, Len(entries)) + 1,
                            Len(entries)),
                     leaf_size, compression,
                     Append(root_entries,
                            Entry(entries[1].tile_id, Len(leaf_dir_bytes),
                                  Len(written.val) % U32Modulus, 0)),
                     leaf_dir_bytes \o written.val, overflow_checks)

leaf_chunks(entries, leaf_size, compression, root_entries, leaf_dir_bytes, overflow_checks) ==
    IF entries = <<>>
    THEN Ok([root_entries |-> root_entries, leaf_dir_bytes |-> leaf_dir_bytes])
    ELSE leaf_chunk(entries, leaf_size, compression, root_entries, leaf_dir_bytes,
                    to_writer_impl(SubSeq(entries, 1,
                                          Min(leaf_size, Len(entries))),
                                   compression, overflow_checks),
                    overflow_checks)

\* only_leaf_pointer_strategy: the loop, from the round of leaf_size on. Once
\* one leaf directory holds all entries every further round writes the same
\* root directory, until `leaf_size *= 2` overflows (a panic with overflow
\* checks) or wraps to 0 (the panic of chunks(0)).
RECURSIVE only_leaf_pointer_strategy(_, _, _, _, _)
RECURSIVE only_leaf_pointer_round(_, _, _, _, _, _)
RECURSIVE only_leaf_pointer_root(_, _, _, _, _, _, _)
only_leaf_pointer_root(entries, compression, leaf_size, roots, leaf_dir_bytes, root, overflow_checks) ==
    IF root.kind # "Ok" THEN root
    ELSE IF Len(root.val) <= RootDirLimit
    THEN Written(Append(roots, root.val), leaf_dir_bytes)
    ELSE IF leaf_size >= Len(entries) THEN Panic
    ELSE only_leaf_pointer_strategy(entries, compression, leaf_size * 2,
                                    Append(roots, root.val), overflow_checks)

only_leaf_pointer_round(entries, compression, leaf_size, roots, layout, overflow_checks) ==
    IF layout.kind # "Ok" THEN layout
    ELSE only_leaf_pointer_root(entries, compression, leaf_size, roots,
                                layout.val.leaf_dir_bytes,
                                to_writer_impl(layout.val.root_entries, compression,
                                               overflow_checks),
                                overflow_checks)

only_leaf_pointer_strategy(entries, compression, leaf_size, roots, overflow_checks) ==
    IF leaf_size = 0 THEN Panic
    ELSE only_leaf_pointer_round(entries, compression, leaf_size, roots,
                                 leaf_chunks(entries, leaf_size, compression,
                                             <<>>, <<>>, overflow_checks),
                                 overflow_checks)

\* write_directories_impl once the root directory of all entries is written.
write_directories_root(entries, compression, start_size, root, overflow_checks) ==
    IF root.kind # "Ok" THEN root
    ELSE IF Len(root.val) <= RootDirLimit THEN Written(<<root.val>>, <<>>)
    ELSE only_leaf_pointer_strategy(entries, compression,
                                    IF start_size = None THEN 4096 ELSE start_size.val,
                                    <<root.val>>, overflow_checks)

\* write_directories; overflow_strategy is OnlyLeafPointers { start_size }.
write_directories(entries, compression, start_size, overflow_checks) ==
    write_directories_root(entries, compression, start_size,
                           to_writer_impl(entries, compression, overflow_checks),
                           overflow_checks)

-----------------------------------------------------------------------------
(* src/src/pmtiles.rs: PMTiles::to_writer                                   *)

Max(a, b) == IF a > b THEN a ELSE b

\* A seekable output (Cursor<Vec<u8>>, File): its bytes and cursor position.
Stream(bytes, pos) == [bytes |-> bytes, pos |-> pos]

\* Write::write_all at the cursor: overwrites, extends, and fills a gap
\* between the old end and the cursor with zeros.
write_all(output, buf) ==
    IF buf = <<>> THEN output
    ELSE Stream([i \in 1 .. Max(Len(output.bytes), output.pos + Len(buf)) |->
                    IF output.pos < i /\ i <= output.pos + Len(buf)
                    THEN buf[i - output.pos]
                    ELSE IF i <= Len(output.bytes) THEN output.bytes[i] ELSE 0],
                output.pos + Len(buf))

\* Seek::seek(SeekFrom::Start(pos))
seek_start(output, pos) == Stream(output.bytes, pos)

\* The writes of write_directories: every root directory at start_pos.
RECURSIVE write_roots(_, _, _)
write_roots(output, start_pos, roots) ==
    IF roots = <<>> THEN output
    ELSE write_roots(write_all(seek_start(output, start_pos), Head(roots)),
                     start_pos, Tail(roots))

\* A PMTiles handle filled by add_tile.
RECURSIVE add_tiles(_, _, _)
add_tiles(tm, tiles, ids) ==
    IF ids = <<>> THEN tm
    ELSE add_tiles(add_tile(tm, Head(ids), tiles[Head(ids)]), tiles, Tail(ids))

\* serde_json::to_vec of the meta data, `{}` without.
JsonEmptyObject == <<123, 125>>

MetaDatas == {None, Some(<<123, 34, 97, 34, 58, 49, 125>>)}

\* A mutant of meta_val: nothing is written without meta data.
meta_val_or_nothing(meta_data) == IF meta_data = None THEN <<>> ELSE meta_data.val

meta_val(meta_data) == IF meta_data = None THEN JsonEmptyObject ELSE meta_data.val

\* Cursor positions of the output when to_writer is called, and the bytes
\* it holds up to there.
StartPositions0 == 0 .. 2

ArchiveCompressions == {"None", "GZip", "Unknown"}

\* The bytes written for a section and the position of the first of them.
Section(at, bytes) == [at |-> at, bytes |-> bytes]

\* A mutant of HandleFields: the header is not marked as clustered.
HandleFieldsUnclustered ==
    [spec_version |-> 3,
     clustered |-> FALSE,
     tile_compression |-> "None",
     tile_type |-> "Mvt",
     min_zoom |-> 0,
     max_zoom |-> 0,
     center_zoom |-> 0,
     min_pos |-> LatLng(F64(0, FALSE), F64(0, FALSE)),
     max_pos |-> LatLng(F64(0, FALSE), F64(0, FALSE)),
     center_pos |-> LatLng(F64(0, FALSE), F64(0, FALSE))]

\* The fields of a handle that to_writer copies into the header.
HandleFields ==
    [spec_version |-> 3,
     clustered |-> TRUE,
     tile_compression |-> "None",
     tile_type |-> "Mvt",
     min_zoom |-> 0,
     max_zoom |-> 0,
     center_zoom |-> 0,
     min_pos |-> LatLng(F64(0, FALSE), F64(0, FALSE)),
     max_pos |-> LatLng(F64(0, FALSE), F64(0, FALSE)),
     center_pos |-> LatLng(F64(0, FALSE), F64(0, FALSE))]

InitToWriter ==
    /\ IdleTM
    /\ pc = "to_writer"
    /\ \E S \in SUBSET TileIds, start \in StartPositions0,
          internal_compression \in ArchiveCompressions, meta_data \in MetaDatas,
          overflow_checks \in BOOLEAN :
       \E tiles \in [S -> Contents] :
          /\ inp = [tile_manager |-> add_tiles(Manager(EmptyMap, EmptyMap, EmptyMap),
                                               tiles, SortedSeq(S)),
                    tiles |-> tiles,
                    internal_compression |-> internal_compression,
                    meta_data |-> meta_data,
                    start |-> start,
                    overflow_checks |-> overflow_checks]
          /\ out = [output |-> Stream([i \in 1 .. start |-> 255], start),
                    result |-> None,
                    finish |-> None,
                    leaf_directories_data |-> <<>>,
                    header |-> EmptyMap,
                    written |-> EmptyMap]

\* to_writer from `let root_directory_length` on, or its early return.
root_dir_written(o, finished, start_pos, dirs) ==
    IF finished.kind # "Ok" THEN [o EXCEPT !.result = finished]
    ELSE IF dirs.kind # "Ok" THEN [o EXCEPT !.result = dirs, !.finish = finished]
    ELSE [o EXCEPT
            !.output = write_roots(o.output, start_pos, dirs.roots),
            !.finish = finished,
            !.leaf_directories_data = dirs.val,
            !.header =
                [root_directory_offset |-> HEADER_BYTES,
                 root_directory_length |->
                     start_pos + Len(dirs.roots[Len(dirs.roots)]) - HEADER_BYTES],
            !.written = MapPut(@, "root_directory",
                               Section(start_pos, dirs.roots[Len(dirs.roots)]))]

\* finish, the seek over the header (SeekFrom::Current), write_directories.
to_writer_root_dir(self, o, finished) ==
    root_dir_written(o, finished, o.output.pos + HEADER_BYTES,
                     IF finished.kind = "Ok"
                     THEN write_directories(finished.directory,
                                            self.internal_compression, None,
                                            self.overflow_checks)
                     ELSE finished)

ToWriterRootDir ==
    /\ pc = "to_writer"
    /\ out' = to_writer_root_dir(inp, out, finish(None, inp.tile_manager))
    /\ pc' = IF out'.result = None THEN "meta_data" ELSE "returned"
    /\ UNCHANGED <<TMVars, inp>>

\* META DATA: the serialized meta data through the compressor.
ToWriterMetaData ==
    /\ pc = "meta_data"
    /\ LET json_metadata_offset ==
               out.header.root_directory_offset + out.header.root_directory_length
           vec == compress_all(inp.internal_compression, meta_val(inp.meta_data))
       IN  IF vec.kind # "Ok"
           THEN out' = [out EXCEPT !.result = vec]
           ELSE out' = [out EXCEPT
                   !.output = write_all(@, vec.val),
                   !.header = @ @@
                       [json_metadata_offset |-> json_metadata_offset,
                        json_metadata_length |->
                            out.output.pos + Len(vec.val) - json_metadata_offset],
                   !.written = MapPut(@, "json_metadata",
                                      Section(out.output.pos, vec.val))]
    /\ pc' = IF out'.result = None THEN "leaf_directories" ELSE "returned"
    /\ UNCHANGED <<TMVars, inp>>

\* LEAF DIRECTORIES
ToWriterLeafDirectories ==
    /\ pc = "leaf_directories"
    /\ LET leaf_directories_offset ==
               out.header.json_metadata_offset + out.header.json_metadata_length
       IN  out' = [out EXCEPT
               !.output = write_all(@, out.leaf_directories_data),
               !.header = @ @@
                   [leaf_directories_offset |-> leaf_directories_offset,
                    leaf_directories_length |->
                        out.output.pos + Len(out.leaf_directories_data)
                            - leaf_directories_offset],
               !.written = MapPut(@, "leaf_directories",
                                  Section(out.output.pos, out.leaf_directories_data))]
    /\ pc' = "data"
    /\ UNCHANGED <<TMVars, inp>>

\* DATA
ToWriterData ==
    /\ pc = "data"
    /\ LET tile_data_offset ==
               out.header.leaf_directories_offset + out.header.leaf_directories_length
       IN  out' = [out EXCEPT
               !.output = write_all(@, out.finish.data),
               !.header = @ @@
                   [tile_data_offset |-> tile_data_offset,
                    tile_data_length |-> Len(out.finish.data)],
               !.written = MapPut(@, "tile_data",
                                  Section(out.output.pos, out.finish.data))]
    /\ pc' = "header"
    /\ UNCHANGED <<TMVars, inp>>

\* HEADER: at SeekFrom::Start(root_directory_offset - HEADER_BYTES), then the
\* cursor is put behind the tile data.
ToWriterHeader ==
    /\ pc = "header"
    /\ LET header == out.header @@ HandleFields @@
                     [internal_compression |-> inp.internal_compression,
                      num_addressed_tiles |-> out.finish.num_addressed_tiles,
                      num_tile_entries |-> out.finish.num_tile_entries,
                      num_tile_content |-> out.finish.num_tile_content]
           at     == out.header.root_directory_offset - HEADER_BYTES
           bytes  == header_to_writer(header)
       IN  IF bytes.kind # "Ok"
           THEN out' = [out EXCEPT !.result = bytes]
           ELSE out' = [out EXCEPT
                   !.output = seek_start(write_all(seek_start(@, at), bytes.val),
                                         at + header.tile_data_offset
                                            + header.tile_data_length),
                   !.header = header,
                   !.result = Ok(<<>>),
                   !.written = MapPut(@, "header", Section(at, bytes.val))]
    /\ pc' = "returned"
    /\ UNCHANGED <<TMVars, inp>>

NextToWriter ==
    \/ ToWriterRootDir
    \/ ToWriterMetaData
    \/ ToWriterLeafDirectories
    \/ ToWriterData
    \/ ToWriterHeader

SpecToWriter == InitToWriter /\ [][NextToWriter]_vars

ToWriterOk == pc = "returned" /\ out.result.kind = "Ok"

\* The header's (offset, length) of a section is where its bytes were
\* written and how many, and the output holds them there.
Recorded(section) ==
    /\ out.header[section \o "_offset"] = out.written[section].at
    /\ out.header[section \o "_length"] = Len(out.written[section].bytes)
    /\ SubSeq(out.output.bytes, out.written[section].at + 1,
              out.written[section].at + Len(out.written[section].bytes))
           = out.written[section].bytes

Sections == {"root_directory", "json_metadata", "leaf_directories", "tile_data"}

OffsetsChained ==
    /\ out.header.root_directory_offset = HEADER_BYTES
    /\ out.header.json_metadata_offset =
           out.header.root_directory_offset + out.header.root_directory_length
    /\ out.header.leaf_directories_offset =
           out.header.json_metadata_offset + out.header.json_metadata_length
    /\ out.header.tile_data_offset =
           out.header.leaf_directories_offset + out.header.leaf_directories_length

\* C11 as stated: whatever the cursor position of the output when to_writer
\* is called, the header records root_directory_offset = 127, each further
\* offset as the end of the section before it, and each (offset, length) is
\* the absolute position and byte count of the section's bytes in the output.
C11_AbsoluteOffsets ==
    ToWriterOk => (OffsetsChained /\ \A section \in Sections : Recorded(section))

\* The same for an output whose cursor is at 0 when to_writer is called.
AbsoluteOffsetsFromStart ==
    (ToWriterOk /\ inp.start = 0)
        => (OffsetsChained /\ \A section \in Sections : Recorded(section))

\* With the cursor at start, the root directory lies at start + 127 while the
\* header, written at 0, says 127 and a length that is start too long.
RootDirectoryShifted ==
    ToWriterOk =>
        /\ out.written.header.at = 0
        /\ out.written.root_directory.at = inp.start + HEADER_BYTES
        /\ out.header.root_directory_length =
               inp.start + Len(out.written.root_directory.bytes)

-----------------------------------------------------------------------------
(* read_directories without a filter                                        *)

\* The tile ids of entry.tile_id_range().
tile_id_range(entry) == entry.tile_id .. entry.tile_id + entry.run_length - 1

\* The map of the data entries: every id of every range to the (offset,
\* length) of the entry covering it.
TilesOf(entries) ==
    [t \in UNION {tile_id_range(entries[i]) : i \in 1 .. Len(entries)} |->
        LET i == CHOOSE i \in 1 .. Len(entries) : t \in tile_id_range(entries[i])
        IN  [offset |-> entries[i].offset, length |-> entries[i].length]]

\* The entry a frame of read_dir_rec looks at.
CurrentEntry(frame) == frame.directory[frame.next]

\* A step of read_dir_rec that enters a leaf directory.
EntersLeaf ==
    /\ out.walk # None /\ out'.walk # None
    /\ Len(out'.walk.stack) = Len(out.walk.stack) + 1

\* The directory of length bytes at the absolute position pos of the archive.
DirectoryAt(pos, length) ==
    from_reader_impl(SubSeq(inp.bytes, pos + 1, Len(inp.bytes)), length,
                     inp.compression, inp.overflow_checks)

\* The directory entered is the one at leaf_dir_offset + entry.offset.
LeafReadAtLeafDirOffset ==
    EntersLeaf =>
        LET frame == out.walk.stack[Len(out.walk.stack)]
        IN  /\ is_leaf_dir_entry(CurrentEntry(frame))
            /\ Ok(out'.walk.stack[Len(out'.walk.stack)].directory)
                   = DirectoryAt(inp.leaf_dir_offset + CurrentEntry(frame).offset,
                                 CurrentEntry(frame).length)

FullRead == out.full # None

-----------------------------------------------------------------------------
(* write_directories, then read_directories over what was written          *)

RoundTripIds == {0, 1, U64Max - 1}

RoundTripRunLengths == {1, 2}

RoundTripOffsets == {0, 3, U64Max - 1, U64Max}

RoundTripLengths == {0, 3}

\* Positive start sizes of the leaf directories.
RoundTripStartSizes == {1, 2}

\* The lists of entries over ids, strictly ordered by tile_id.
RoundTripEntries(ids) ==
    {[i \in 1 .. Len(ids) |-> Entry(ids[i], ol[i][1], ol[i][2], ol[i][3])] :
        ol \in [1 .. Len(ids) ->
                   RoundTripOffsets \X RoundTripLengths \X RoundTripRunLengths]}

InitRoundTrip ==
    /\ IdleTM
    /\ pc = "entries"
    /\ out = [written |-> None, walk |-> None, read |-> None]
    /\ \E S \in SUBSET RoundTripIds, start_size \in RoundTripStartSizes,
          compression \in {"None", "GZip"}, overflow_checks \in BOOLEAN :
          \E all \in RoundTripEntries(SortedSeq(S)) :
                inp = [all_entries |-> all,
                       start_size |-> Some(start_size),
                       compression |-> compression,
                       overflow_checks |-> overflow_checks]

WriteDirectories ==
    /\ pc = "entries"
    /\ out' = [out EXCEPT !.written =
                  write_directories(inp.all_entries, inp.compression,
                                    inp.start_size, inp.overflow_checks)]
    /\ pc' = "written"
    /\ UNCHANGED <<TMVars, inp>>

\* The root directory written last, the returned leaf section behind it.
WrittenArchive ==
    ArchiveOf(out.written.roots[Len(out.written.roots)], out.written.val,
              inp.compression, inp.overflow_checks)

ReadWritten ==
    /\ pc = "written"
    /\ out.written.kind = "Ok"
    /\ out' = [out EXCEPT !.walk = read_directories(WrittenArchive, FullRange)]
    /\ pc' = "reading"
    /\ UNCHANGED <<TMVars, inp>>

ReadWrittenRec ==
    /\ pc = "reading"
    /\ out.walk.status = Running
    /\ out.walk.stack # <<>>
    /\ out' = [out EXCEPT !.walk = read_dir_rec_step(WrittenArchive, @)]
    /\ UNCHANGED <<TMVars, inp, pc>>

ReadWrittenReturn ==
    /\ pc = "reading"
    /\ out.walk.status # Running \/ out.walk.stack = <<>>
    /\ out' = [out EXCEPT !.read = IF out.walk.status = Running
                                   THEN Ok(out.walk.tiles) ELSE out.walk.status,
                          !.walk = None]
    /\ pc' = "read"
    /\ UNCHANGED <<TMVars, inp>>

NextRoundTrip ==
    \/ WriteDirectories
    \/ ReadWritten
    \/ ReadWrittenRec
    \/ ReadWrittenReturn

SpecRoundTrip == InitRoundTrip /\ [][NextRoundTrip]_vars

\* The ids of the range [tile_id, tile_id + run_length) of an entry.
Covered(entry) == entry.tile_id .. Min(entry.tile_id + entry.run_length - 1, U64Max)

\* The tiles read are the ids the original entries cover, each with the
\* (offset, length) of an entry covering it.
ReadsOriginal ==
    /\ out.read.kind = "Ok"
    /\ DOMAIN out.read.val =
           UNION {Covered(inp.all_entries[i]) : i \in 1 .. Len(inp.all_entries)}
    /\ \A t \in DOMAIN out.read.val :
          \E i \in 1 .. Len(inp.all_entries) :
              /\ t \in Covered(inp.all_entries[i])
              /\ out.read.val[t] = [offset |-> inp.all_entries[i].offset,
                                    length |-> inp.all_entries[i].length]

RoundTripHolds ==
    /\ pc # "entries" => out.written.kind = "Ok"
    /\ pc = "read" => ReadsOriginal

\* Every range, every end of tile data and every offset + 1 is a u64.
EntriesWithinU64 ==
    \A i \in 1 .. Len(inp.all_entries) :
        /\ inp.all_entries[i].tile_id + inp.all_entries[i].run_length <= U64Max
        /\ inp.all_entries[i].offset + inp.all_entries[i].length <= U64Max
        /\ inp.all_entries[i].offset < U64Max

\* C13 as stated: for any list of data entries strictly ordered by tile_id
\* and any positive start size, write_directories succeeds and
\* read_directories over the written root and the returned leaf section
\* yields exactly the ids the entries cover, each with its (offset, length).
C13_SplitterWalker == RoundTripHolds

\* The round trip holds for entries whose tile_id + run_length and
\* offset + length do not exceed u64::MAX and whose offset is below it, as
\* long as every leaf directory is shorter than 2^32 bytes (as all are in
\* SpecRoundTrip).
C13_SplitterWalkerWithinU64 == EntriesWithinU64 => RoundTripHolds

\* C13's case: three entries, one a run of two tiles, that overflow the root
\* directory into two leaf directories and are read back.
C13_Witness ==
    /\ pc = "read"
    /\ EntriesWithinU64
    /\ Len(inp.all_entries) = 3
    /\ \E i \in 1 .. 3 : inp.all_entries[i].run_length = 2
    /\ Len(out.written.roots) >= 2
    /\ out.written.val # <<>>
    /\ inp.compression = "GZip"
    /\ Cardinality(DOMAIN out.read.val) >= 3

-----------------------------------------------------------------------------
(* src/src/tile_manager.rs: get_tile on a handle with a reader              *)

\* A mutant of reader_seek: SeekFrom::Current.
reader_seek_current(pos, offset) == pos + offset

\* r.seek(SeekFrom::Start(offset)): the cursor of the reader afterwards.
reader_seek(pos, offset) == offset

\* What one call may return and where it may leave the reader's cursor.
Fetched(ret, pos) == [ret |-> ret, pos |-> pos]

\* get_tile_content with the reader's cursor at pos. read_exact past the end
\* fails and leaves the cursor somewhere from where it started to the end.
get_tile_content_seek(rd, pos, dbh, tile) ==
    IF tile.kind = "Hash"
    THEN {Fetched(IF tile.hash \in DOMAIN dbh THEN Some(dbh[tile.hash]) ELSE None, pos)}
    ELSE IF rd = None
    THEN {Fetched(Err("Tried to read from non-existent reader"), pos)}
    ELSE LET at == reader_seek(pos, tile.offset)
         IN  IF at + tile.length <= Len(rd.val)
             THEN {Fetched(Some(SubSeq(rd.val, at + 1, at + tile.length)),
                           at + tile.length)}
             ELSE {Fetched(Err("UnexpectedEof"), p) : p \in at .. Max(at, Len(rd.val))}

get_tile_seek(rd, pos, tm, id) ==
    IF id \notin DOMAIN tm.tile_by_id
    THEN {Fetched(None, pos)}
    ELSE get_tile_content_seek(rd, pos, tm.data_by_hash, tm.tile_by_id[id])

\* What a handle holds under an id: nothing, a body, or a range of the reader.
Holdings == {None} \cup {Some(c) : c \in Contents}
                   \cup {OffsetLengthTile(ol[1], ol[2]) : ol \in OffsetRefs}

RECURSIVE hold_tiles(_, _, _)
hold_tiles(tm, holdings, ids) ==
    IF ids = <<>> THEN tm
    ELSE LET h == holdings[Head(ids)]
         IN  hold_tiles(CASE h.kind = "None" -> tm
                          [] h.kind = "Some" -> add_tile(tm, Head(ids), h.val)
                          [] OTHER -> add_offset_tile(tm, Head(ids), h.offset, h.length),
                        holdings, Tail(ids))

InitGet ==
    /\ reader \in {None, Some(ReaderBytes)}
    /\ shadow = EmptyMap
    /\ collided = FALSE
    /\ last = NoCall
    /\ result = None
    /\ pc = "open"
    /\ out = [pos |-> 0, failed |-> FALSE]
    /\ \E holdings \in [TileIds -> Holdings] :
          /\ inp = hold_tiles(Manager(EmptyMap, EmptyMap, EmptyMap), holdings,
                              SortedSeq(TileIds))
          /\ tile_by_id = inp.tile_by_id
          /\ data_by_hash = inp.data_by_hash
          /\ ids_by_hash = inp.ids_by_hash

\* get_tile(id): the maps are not written to; the reader's cursor moves.
GetTile ==
    /\ pc = "open"
    /\ \E id \in TileIds \cup {MaxTileId + 1} :
       \E fetched \in get_tile_seek(reader, out.pos, TM, id) :
          /\ last' = [op |-> "get_tile", tile_id |-> id, ret |-> fetched.ret]
          /\ out' = [pos |-> fetched.pos,
                     failed |-> out.failed \/ fetched.ret.kind = "Err"]
    /\ UNCHANGED <<tile_by_id, data_by_hash, ids_by_hash, reader, shadow,
                   collided, result, pc, inp>>

NextGet == GetTile

SpecGet == InitGet /\ [][NextGet]_vars

\* What get_tile(id) returns on the handle as it was built, before any
\* call of get_tile.
FirstFetch(id) ==
    {fetched.ret : fetched \in get_tile_seek(reader, 0, inp, id)}

\* C14: get_tile on an id whose reference is OffsetLength fails without a
\* reader, returns Ok(None) for an id that is not present, writes to none of
\* tile_by_id, data_by_hash and ids_by_hash, and returns after failed calls
\* what it would have returned without them.
C14_GetTileNoPoison ==
    /\ TM = inp
    /\ last.op = "get_tile" =>
          /\ last.tile_id \notin DOMAIN tile_by_id => last.ret = None
          /\ (/\ last.tile_id \in DOMAIN tile_by_id
              /\ tile_by_id[last.tile_id].kind = "OffsetLength"
              /\ reader = None) => last.ret.kind = "Err"
          /\ last.ret \in FirstFetch(last.tile_id)

\* C14's case: after a call that failed past the end of the reader, a tile
\* is read from a range of the reader that does not start at 0.
C14_Witness ==
    /\ out.failed
    /\ reader # None
    /\ last.op = "get_tile"
    /\ last.ret.kind = "Some"
    /\ tile_by_id[last.tile_id].kind = "OffsetLength"
    /\ tile_by_id[last.tile_id].offset > 0
    /\ out.pos > 0

-----------------------------------------------------------------------------
(* src/src/util/tile_id.rs: zxy of any id                                   *)

\* base(0) = 0, base(z) = 1 + the sum of 4^i for i in 1 .. z - 1.
RECURSIVE SumPow4(_)
SumPow4(n) == IF n <= 0 THEN 0 ELSE Pow(4, n) + SumPow4(n - 1)

Base(z) == IF z = 0 THEN 0 ELSE 1 + SumPow4(z - 1)

\* Ids around the first id of every zoom, the first ids and the last ones.
ZxyIds ==
    {id \in {Base(z) + d : z \in 0 .. MAX_Z, d \in {0 - 1, 0, 1, 2}} : id >= 0}
        \cup 0 .. 90 \cup {U64Max - 1, U64Max}

InitZxy ==
    /\ IdleTM
    /\ pc = "id"
    /\ out = None
    /\ \E id \in ZxyIds, overflow_checks \in BOOLEAN :
          inp = [tile_id |-> id, overflow_checks |-> overflow_checks]

ZxyOfId ==
    /\ pc = "id"
    /\ pc' = "zxy"
    /\ out' = zxy(inp.tile_id, inp.overflow_checks)
    /\ UNCHANGED <<TMVars, inp>>

NextZxy == ZxyOfId

SpecZxy == InitZxy /\ [][NextZxy]_vars

\* z is the one zoom below MAX_Z whose ids include id.
TheZoomOf(z, id) ==
    /\ z < MAX_Z
    /\ \A other \in 0 .. MAX_Z - 1 :
          (Base(other) <= id /\ id < Base(other + 1)) <=> other = z

\* C15: zxy(id) returns the unique zoom z below the largest with
\* base(z) <= id < base(z + 1), and MaxZError exactly for the ids from
\* base(largest) on; it never fails for an id below that.
C15_ZoomOfId ==
    pc = "zxy" =>
        IF inp.tile_id < Base(MAX_Z)
        THEN out.kind = "Ok" /\ TheZoomOf(out.val[1], inp.tile_id)
        ELSE out = Err("MaxZError")

\* C15's cases: the last id of the largest zoom is resolved, and the id
\* after it is refused.
C15_Witness ==
    /\ pc = "zxy"
    /\ inp.tile_id = Base(MAX_Z) - 1
    /\ out.kind = "Ok"
    /\ out.val[1] = MAX_Z - 1

\* The first id that no zoom holds is refused.
ZxyRefusesFirstIdBeyond ==
    (pc = "zxy" /\ inp.tile_id = Base(MAX_Z)) => out = Err("MaxZError")

-----------------------------------------------------------------------------
(* src/src/pmtiles.rs: PMTiles::from_reader, and the operations that        *)
(* compress or decompress                                                   *)

\* util::compress: the encoder around the writer, or Err.
compress(compression) ==
    CASE compression = "Unknown" -> Err("Cannot compress for Compression Unknown")
      [] OTHER -> Ok(compression)

\* util::decompress: the decoder around the reader, or Err.
decompress(compression) ==
    CASE compression = "Unknown" -> Err("Cannot decompress for Compression Unknown")
      [] OTHER -> Ok(compression)

\* The JSON values of the model, each by its serialization.
JsonValues == {meta_val(meta_data) : meta_data \in MetaDatas}

\* PMTiles::parse_meta_data: decompress, then serde_json::from_reader.
parse_meta_data(compression, bytes) ==
    LET plain == decompress_all(compression, bytes)
    IN  IF plain.kind # "Ok" THEN plain
        ELSE IF plain.val \in JsonValues THEN Ok(plain.val)
        ELSE Err("serde_json")

\* from_reader, META DATA: None without a metadata section, else the seek
\* and the parse of the section's bytes.
from_reader_meta_data(input, header) ==
    IF header.json_metadata_length = 0 THEN Ok(None)
    ELSE LET parsed == parse_meta_data(
                           header.internal_compression,
                           SubSeq(input, header.json_metadata_offset + 1,
                                  Min(Len(input), header.json_metadata_offset
                                                  + header.json_metadata_length)))
         IN  IF parsed.kind # "Ok" THEN parsed ELSE Ok(Some(parsed.val))

\* The arguments from_reader gives to read_directories.
HeaderArchive(input, header, overflow_checks) ==
    [bytes |-> input,
     compression |-> header.internal_compression,
     root_dir_offset_length |-> <<header.root_directory_offset,
                                  header.root_directory_length>>,
     leaf_dir_offset |-> header.leaf_directories_offset,
     overflow_checks |-> overflow_checks]

\* The loop over the tiles read: add_offset_tile at tile_data_offset +
\* info.offset.
RECURSIVE from_reader_tiles(_, _, _, _, _)
from_reader_tiles(tm, tiles, ids, tile_data_offset, overflow_checks) ==
    IF ids = <<>> THEN Ok(tm)
    ELSE LET offset == U64(tile_data_offset + tiles[Head(ids)].offset,
                           overflow_checks)
         IN  IF offset.kind # "Ok" THEN offset
             ELSE from_reader_tiles(
                      add_offset_tile(tm, Head(ids), offset.val,
                                      tiles[Head(ids)].length),
                      tiles, Tail(ids), tile_data_offset, overflow_checks)

\* The handle from_reader returns: the header's fields, the meta data, the
\* tile manager around the input.
Handle(header, meta_data, tile_manager) ==
    [tile_type |-> header.tile_type,
     internal_compression |-> header.internal_compression,
     tile_compression |-> header.tile_compression,
     min_zoom |-> header.min_zoom,
     max_zoom |-> header.max_zoom,
     center_zoom |-> header.center_zoom,
     min_pos |-> header.min_pos,
     max_pos |-> header.max_pos,
     center_pos |-> header.center_pos,
     meta_data |-> meta_data,
     tile_manager |-> tile_manager]

\* from_reader, DIRECTORIES: the call of read_directories.
from_reader_directories(o, input, header, meta_data, overflow_checks) ==
    IF meta_data.kind # "Ok" THEN [o EXCEPT !.from_reader = meta_data]
    ELSE [o EXCEPT !.read_header = header,
                   !.read_meta_data = meta_data.val,
                   !.walk = read_directories(
                                HeaderArchive(input, header, overflow_checks),
                                FullRange)]

\* from_reader behind `let header`.
from_reader_header(o, input, header, overflow_checks) ==
    IF header.kind # "Ok" THEN [o EXCEPT !.from_reader = header]
    ELSE from_reader_directories(o, input, header.val,
                                 from_reader_meta_data(input, header.val),
                                 overflow_checks)

\* PMTiles::from_reader up to the first read_dir_rec.
from_reader(o, input, overflow_checks) ==
    from_reader_header(o, input, header_from_reader(input), overflow_checks)

\* from_reader after read_directories.
from_reader_return(o, tm) ==
    IF tm.kind # "Ok" THEN [o EXCEPT !.from_reader = tm]
    ELSE [o EXCEPT !.from_reader = Ok(Handle(o.read_header, o.read_meta_data, tm.val))]

\* An archive as it lies in a file: header, root directory, metadata (none
\* for None), tile data; its directory and metadata compressed with stored,
\* its header saying internal_compression.
StoredArchive(finished, root, meta, internal_compression) ==
    header_to_writer(
        HandleFields @@
        [internal_compression |-> internal_compression,
         root_directory_offset |-> HEADER_BYTES,
         root_directory_length |-> Len(root),
         json_metadata_offset |-> HEADER_BYTES + Len(root),
         json_metadata_length |-> Len(meta),
         leaf_directories_offset |-> HEADER_BYTES + Len(root) + Len(meta),
         leaf_directories_length |-> 0,
         tile_data_offset |-> HEADER_BYTES + Len(root) + Len(meta),
         tile_data_length |-> Len(finished.data),
         num_addressed_tiles |-> finished.num_addressed_tiles,
         num_tile_entries |-> finished.num_tile_entries,
         num_tile_content |-> finished.num_tile_content]).val
        \o root \o meta \o finished.data

StoredCompressions == {"None", "GZip"}

\* A handle of tiles, the archive of the same tiles and metadata as stored
\* with the compression `stored`, and a compression that the handle, the
\* archive's header and every call are given.
InitCompression ==
    /\ IdleTM
    /\ pc = "to_writer"
    /\ \E S \in SUBSET TileIds, shared \in Contents,
          internal_compression \in Compressions, stored \in StoredCompressions,
          meta_data \in MetaDatas, overflow_checks \in BOOLEAN :
       LET tiles == [t \in S |-> IF t = 0 THEN <<1>> ELSE shared]
           tm    == add_tiles(Manager(EmptyMap, EmptyMap, EmptyMap), tiles,
                              SortedSeq(S))
       IN  /\ inp = [tile_manager |-> tm,
                     tiles |-> tiles,
                     internal_compression |-> internal_compression,
                     stored |-> stored,
                     meta_data |-> meta_data,
                     start |-> 0,
                     overflow_checks |-> overflow_checks]
           /\ out = [output |-> Stream(<<>>, 0),
                     result |-> None,
                     finish |-> None,
                     leaf_directories_data |-> <<>>,
                     header |-> EmptyMap,
                     written |-> EmptyMap,
                     compress |-> None,
                     compress_all |-> None,
                     decompress |-> None,
                     decompress_all |-> None,
                     directory_from_reader |-> None,
                     directory_to_writer |-> None,
                     from_reader |-> None,
                     read_header |-> None,
                     read_meta_data |-> None,
                     walk |-> None]

\* The directory and the tile data of the handle's tiles.
HandleFinished == finish(None, inp.tile_manager)

\* The handle's directory as stored.
StoredDirectory == to_writer_impl(HandleFinished.directory, inp.stored, FALSE).val

\* The metadata section as stored: none for None.
StoredMetaData ==
    IF inp.meta_data = None THEN <<>>
    ELSE compress_all(inp.stored, inp.meta_data.val).val

CallCompress ==
    /\ pc = "returned"
    /\ pc' = "compress_all"
    /\ out' = [out EXCEPT !.compress = compress(inp.internal_compression)]
    /\ UNCHANGED <<TMVars, inp>>

CallCompressAll ==
    /\ pc = "compress_all"
    /\ pc' = "decompress"
    /\ out' = [out EXCEPT
                  !.compress_all = compress_all(inp.internal_compression,
                                                HandleFinished.data)]
    /\ UNCHANGED <<TMVars, inp>>

CallDecompress ==
    /\ pc = "decompress"
    /\ pc' = "decompress_all"
    /\ out' = [out EXCEPT !.decompress = decompress(inp.internal_compression)]
    /\ UNCHANGED <<TMVars, inp>>

CallDecompressAll ==
    /\ pc = "decompress_all"
    /\ pc' = "Directory::from_reader"
    /\ out' = [out EXCEPT
                  !.decompress_all =
                      decompress_all(inp.internal_compression,
                                     compress_all(inp.stored,
                                                  HandleFinished.data).val)]
    /\ UNCHANGED <<TMVars, inp>>

DirectoryFromReader ==
    /\ pc = "Directory::from_reader"
    /\ pc' = "Directory::to_writer"
    /\ out' = [out EXCEPT
                  !.directory_from_reader =
                      from_reader_impl(StoredDirectory, Len(StoredDirectory),
                                       inp.internal_compression,
                                       inp.overflow_checks)]
    /\ UNCHANGED <<TMVars, inp>>

DirectoryToWriter ==
    /\ pc = "Directory::to_writer"
    /\ pc' = "PMTiles::from_reader"
    /\ out' = [out EXCEPT
                  !.directory_to_writer =
                      to_writer_impl(HandleFinished.directory, inp.internal_compression,
                                     inp.overflow_checks)]
    /\ UNCHANGED <<TMVars, inp>>

\* The archive given to from_reader.
InputArchive ==
    StoredArchive(HandleFinished, StoredDirectory, StoredMetaData,
                  inp.internal_compression)

FromReaderHeader ==
    /\ pc = "PMTiles::from_reader"
    /\ out' = from_reader(out, InputArchive, inp.overflow_checks)
    /\ pc' = IF out'.from_reader = None THEN "read_directories" ELSE "done"
    /\ UNCHANGED <<TMVars, inp>>

FromReaderDirRec ==
    /\ pc = "read_directories"
    /\ out.walk.status = Running
    /\ out.walk.stack # <<>>
    /\ out' = [out EXCEPT
                  !.walk = read_dir_rec_step(
                               HeaderArchive(InputArchive, out.read_header,
                                             inp.overflow_checks), @)]
    /\ UNCHANGED <<TMVars, inp, pc>>

FromReaderReturn ==
    /\ pc = "read_directories"
    /\ out.walk.status # Running \/ out.walk.stack = <<>>
    /\ pc' = "done"
    /\ out' = from_reader_return(
                  out,
                  IF out.walk.status # Running THEN out.walk.status
                  ELSE from_reader_tiles(Manager(EmptyMap, EmptyMap, EmptyMap),
                                         out.walk.tiles,
                                         SortedSeq(DOMAIN out.walk.tiles),
                                         out.read_header.tile_data_offset,
                                         inp.overflow_checks))
    /\ UNCHANGED <<TMVars, inp>>

NextCompression ==
    \/ NextToWriter
    \/ CallCompress
    \/ CallCompressAll
    \/ CallDecompress
    \/ CallDecompressAll
    \/ DirectoryFromReader
    \/ DirectoryToWriter
    \/ FromReaderHeader
    \/ FromReaderDirRec
    \/ FromReaderReturn

SpecCompression == InitCompression /\ [][NextCompression]_vars

\* What the calls returned, None before they were made.
Returns ==
    <<out.result, out.compress, out.compress_all, out.decompress,
      out.decompress_all, out.directory_from_reader, out.directory_to_writer,
      out.from_reader>>

\* C16: with Compression::Unknown every one of compress, compress_all,
\* decompress, decompress_all, Directory::from_reader, Directory::to_writer,
\* PMTiles::from_reader (of an archive whose header says Unknown, with or
\* without a metadata section) and PMTiles::to_writer returns an error.
C16_UnknownFails ==
    inp.internal_compression = "Unknown" =>
        \A i \in 1 .. Len(Returns) : Returns[i] # None => Returns[i].kind = "Err"

\* Every call was made with Unknown, from_reader on an archive of tiles
\* without a metadata section.
C16_Witness ==
    /\ pc = "done"
    /\ inp.internal_compression = "Unknown"
    /\ inp.meta_data = None
    /\ header_from_reader(InputArchive).val.json_metadata_length = 0
    /\ Cardinality(DOMAIN inp.tiles) >= 2
    /\ \A i \in 1 .. Len(Returns) : Returns[i].kind = "Err"

\* With any other compression, stored that way, every call succeeds.
KnownSucceeds ==
    (pc = "done" /\ inp.internal_compression = inp.stored)
        => \A i \in 1 .. Len(Returns) : Returns[i].kind = "Ok"

-----------------------------------------------------------------------------
(* Directory::from_reader on an offset column that starts with 0            *)

\* from_reader was called on a directory whose offset column starts with 0.
FirstOffsetZero ==
    /\ pc # "encoded"
    /\ inp.n >= 1
    /\ inp.offs[1] = 0

\* C17 as stated: from_reader returns Err when the first value of the offset
\* column is 0; it returns no directory for such input.
C17_FirstOffsetZeroIsErr == FirstOffsetZero => out.directory.kind = "Err"

\* What from_reader does then, when it can decompress: `val - 1` on a u64.
\* With overflow checks it panics; without, entry 0 gets the offset u64::MAX
\* and a directory is returned, unless an addition before it has panicked.
FirstOffsetZeroWraps ==
    (FirstOffsetZero /\ inp.compression # "Unknown") =>
        /\ out.directory.kind \in {"Ok", "Panic"}
        /\ inp.overflow_checks => out.directory.kind = "Panic"
        /\ out.directory.kind = "Ok" => out.directory.val[1].offset = U64Max

\* A directory is returned for an offset column that starts with 0.
FirstOffsetZeroReturned ==
    /\ FirstOffsetZero
    /\ out.directory.kind = "Ok"
    /\ out.directory.val[1].offset = U64Max

-----------------------------------------------------------------------------
(* The bodies held after add_tile and remove_tile                           *)

\* The contents last added under the ids that are present.
AddedContents == {shadow[id] : id \in DOMAIN shadow}

\* No two distinct contents of present ids have the same hash.
AddedContentsHashApart ==
    \A c1, c2 \in AddedContents :
        calculate_hash(c1) = calculate_hash(c2) => c1 = c2

\* C18 as stated: after any sequence of add_tile and remove_tile calls the
\* number of bodies in data_by_hash is the number of distinct contents among
\* the tile ids present.
C18_BodyPerContent ==
    Cardinality(DOMAIN data_by_hash) = Cardinality(AddedContents)

\* C18 as amended: data_by_hash holds one body per distinct hash among the
\* contents of the present ids, which is one per distinct content as long as
\* no two distinct contents of present ids have the same hash.
C18_BodyPerHash ==
    /\ DOMAIN data_by_hash = {calculate_hash(c) : c \in AddedContents}
    /\ AddedContentsHashApart => C18_BodyPerContent

\* C18's case: remove_tile has removed one of several ids of one content, two
\* ids still share the body, and it is the only one held.
C18_Witness ==
    /\ last.op = "remove_tile" /\ last.ret
    /\ AddedContentsHashApart
    /\ \E a, b \in DOMAIN shadow : a # b /\ shadow[a] = shadow[b]
    /\ Cardinality(DOMAIN data_by_hash) = 1

\* Bodies of distinct contents with one hash are held as one.
BodiesCollide ==
    /\ ~AddedContentsHashApart
    /\ Cardinality(DOMAIN data_by_hash) < Cardinality(AddedContents)

-----------------------------------------------------------------------------
(* TileManager::finish on managers of every kind of tile                    *)

\* A body as long as a u32 has values: its length as u32 is 0.
LongContent == [i \in 1 .. U32Modulus |-> IF i = U32Modulus THEN 2 ELSE 1]

FinishHoldings == Holdings \cup {Some(LongContent)}

\* A manager holding, under each id, nothing, a body or a range of the
\* reader.
InitFinish ==
    /\ reader \in {None, Some(ReaderBytes)}
    /\ shadow = EmptyMap
    /\ collided = FALSE
    /\ last = NoCall
    /\ result = None
    /\ pc = "open"
    /\ out = None
    /\ \E holdings \in [TileIds -> FinishHoldings] :
          /\ inp = hold_tiles(Manager(EmptyMap, EmptyMap, EmptyMap), holdings,
                              SortedSeq(TileIds))
          /\ tile_by_id = inp.tile_by_id
          /\ data_by_hash = inp.data_by_hash
          /\ ids_by_hash = inp.ids_by_hash

NextFinish == Finish

SpecFinish == InitFinish /\ [][NextFinish]_vars

\* The contents of the ids in order, each where the smallest id holding it
\* stands.
RECURSIVE FirstHeld(_, _)
FirstHeld(ids, seen) ==
    IF ids = <<>> THEN <<>>
    ELSE LET c == ContentOf(Head(ids)).val
         IN  IF c \in seen THEN FirstHeld(Tail(ids), seen)
             ELSE <<c>> \o FirstHeld(Tail(ids), seen \cup {c})

RECURSIVE Concat(_)
Concat(seqs) == IF seqs = <<>> THEN <<>> ELSE Head(seqs) \o Concat(Tail(seqs))

\* data[offset .. offset + length] of an entry.
EntryBytes(data, entry) ==
    SubSeq(data, entry.offset + 1, entry.offset + entry.length)

\* The blob is the concatenation of the distinct contents, every id lies in
\* an entry, and the entries of an id delimit what get_tile returned for it.
BlobHolds ==
    /\ result.data = Concat(FirstHeld(SortedSeq(DOMAIN tile_by_id), {}))
    /\ \A t \in DOMAIN tile_by_id :
          /\ Covering(result.directory, t) # {}
          /\ \A i \in Covering(result.directory, t) :
                EntryBytes(result.data, result.directory[i]) = ContentOf(t).val
    /\ (/\ <<>> \notin PresentContents
        /\ \A a, b \in DOMAIN tile_by_id : a # b => ContentOf(a) # ContentOf(b))
       => \A i \in 1 .. Len(result.directory) - 1 :
             result.directory[i].offset < result.directory[i + 1].offset

\* C19 as stated: the blob returned by finish is the gap-free concatenation
\* of the distinct contents in ascending order of the smallest tile id
\* holding each, the entry of every tile id present delimits in the blob
\* the bytes get_tile returned for the id, and entry offsets increase
\* strictly when all contents are distinct and non-empty.
C19_Blob == Finished => BlobHolds

\* The length of every content held is a u32.
LengthsFit == \A c \in PresentContents : Len(c) < U32Modulus

\* The same for contents whose lengths are u32 values and whose hashes are
\* apart.
BlobWithinLimits == (Finished /\ NoHashCollision /\ LengthsFit) => BlobHolds

\* Without a hash collision: the length of a body that is not a u32 is cut
\* off in its entry, which then delimits other bytes than get_tile returned.
LengthCutOff ==
    /\ Finished /\ NoHashCollision /\ ~LengthsFit
    /\ ~BlobHolds

\* Two distinct contents, one of them in the reader, laid out in the order
\* of their ids.
BlobOfTwo ==
    /\ Finished /\ NoHashCollision /\ LengthsFit /\ BlobHolds
    /\ Cardinality(PresentContents) = 2
    /\ \E t \in DOMAIN tile_by_id : tile_by_id[t].kind = "OffsetLength"
    /\ \E t \in DOMAIN tile_by_id : tile_by_id[t].kind = "Hash"

-----------------------------------------------------------------------------
(* The counts of a FinishResult                                             *)

\* The contents finish appends to the blob: that of the smallest id of
\* each hash.
WrittenContents ==
    {ContentOf(t).val : t \in
        {t \in DOMAIN tile_by_id :
            \A u \in DOMAIN tile_by_id :
                u < t => calculate_hash(ContentOf(u).val)
                             # calculate_hash(ContentOf(t).val)}}

RunLengths == [i \in 1 .. Len(result.directory) |-> result.directory[i].run_length]

\* The counts are those of the ids, the entries and the contents written.
CountsExact ==
    /\ result.num_addressed_tiles = Cardinality(DOMAIN tile_by_id)
    /\ result.num_addressed_tiles = SumSeq(RunLengths)
    /\ result.num_tile_entries = Len(result.directory)
    /\ result.num_tile_content = Cardinality(WrittenContents)

CountsOrdered ==
    /\ result.num_tile_content <= result.num_tile_entries
    /\ result.num_tile_entries <= result.num_addressed_tiles

\* C20 as stated: in every FinishResult num_addressed_tiles is the number of
\* tile ids held and the sum of run_length over the entries,
\* num_tile_entries the number of entries, num_tile_content the number of
\* distinct contents written to the blob, and num_tile_content <=
\* num_tile_entries <= num_addressed_tiles.
C20_Counts == Finished => (CountsExact /\ CountsOrdered)

\* The counts themselves are exact in every FinishResult, and ordered when
\* the length of every content is a u32.
CountsWithinLimits ==
    Finished => (CountsExact /\ (LengthsFit => CountsOrdered))

\* More contents than entries: a body whose length as u32 is 0 follows the
\* empty body under the next id and is merged into its entry.
MoreContentsThanEntries ==
    /\ Finished /\ NoHashCollision
    /\ result.num_tile_content > result.num_tile_entries

\* A FinishResult of three ids, two entries and two contents.
CountsOfThree ==
    /\ Finished /\ CountsExact /\ CountsOrdered
    /\ result.num_addressed_tiles = 3
    /\ result.num_tile_entries = 2
    /\ result.num_tile_content = 2

-----------------------------------------------------------------------------
(* The reverse index after add_tile, add_offset_tile and remove_tile        *)

\* The ids whose current reference is Hash(h).
HashIds(h) ==
    {id \in DOMAIN tile_by_id : tile_by_id[id] = HashTile(h)}

\* C22 as stated: after any sequence of add_tile, add_offset_tile and
\* remove_tile calls, ids_by_hash[h] is exactly the set of ids whose current
\* reference is Hash(h), ids_by_hash holds no empty set, and data_by_hash and
\* ids_by_hash have the same keys.
C22_ReverseIndexExact ==
    /\ \A h \in DOMAIN ids_by_hash :
          ids_by_hash[h] = HashIds(h) /\ ids_by_hash[h] # {}
    /\ \A id \in DOMAIN tile_by_id :
          tile_by_id[id].kind = "Hash" => tile_by_id[id].hash \in DOMAIN ids_by_hash
    /\ DOMAIN data_by_hash = DOMAIN ids_by_hash

\* What holds of the index in every case: it has the keys of data_by_hash,
\* no empty set, and lists at least the ids that refer to the hash.
ReverseIndexCovers ==
    /\ DOMAIN data_by_hash = DOMAIN ids_by_hash
    /\ \A h \in DOMAIN ids_by_hash :
          HashIds(h) \subseteq ids_by_hash[h] /\ ids_by_hash[h] # {}

\* A body no id refers to: add_offset_tile took over the only id of its
\* hash, and the index still lists the id.
UnreachableBody ==
    \E h \in DOMAIN data_by_hash :
        /\ HashIds(h) = {}
        /\ \E id \in ids_by_hash[h] :
              id \in DOMAIN tile_by_id /\ tile_by_id[id].kind = "OffsetLength"

-----------------------------------------------------------------------------
(* Directory::to_writer and Directory::from_reader on directories of any    *)
(* entries                                                                  *)

\* Differences of consecutive tile ids: the ids do not decrease.
EntryDeltas == {0, 1}

EntryRunLengths == {0, 1}

EntryLengths == {0, 3}

\* Offsets: the first ones and the last ones of a u64.
EntryOffsets == {0, 3, U64Max - 1, U64Max}

\* The directory of n entries with these columns.
DirectoryOf(n, deltas, runs, lens, offs) ==
    [i \in 1 .. n |->
        Entry(SumSeq([j \in 1 .. i |-> deltas[j]]), offs[i], lens[i], runs[i])]

InitDirectory ==
    /\ IdleTM
    /\ pc = "directory"
    /\ out = [written |-> None, read |-> None]
    /\ \E n \in 0 .. MaxEntries :
       \E deltas \in [1 .. n -> EntryDeltas], runs \in [1 .. n -> EntryRunLengths],
          lens \in [1 .. n -> EntryLengths], offs \in [1 .. n -> EntryOffsets],
          compression \in {"None", "GZip"}, overflow_checks \in BOOLEAN :
          inp = [entries |-> DirectoryOf(n, deltas, runs, lens, offs),
                 compression |-> compression,
                 overflow_checks |-> overflow_checks]

\* directory.to_writer(&mut output, compression)
DirToWriter ==
    /\ pc = "directory"
    /\ pc' = "written"
    /\ out' = [out EXCEPT
                  !.written = to_writer_impl(inp.entries, inp.compression,
                                             inp.overflow_checks)]
    /\ UNCHANGED <<TMVars, inp>>

\* Directory::from_reader(&mut output, length, compression) on what was
\* written.
DirFromReader ==
    /\ pc = "written"
    /\ out.written.kind = "Ok"
    /\ pc' = "read"
    /\ out' = [out EXCEPT
                  !.read = from_reader_impl(out.written.val, Len(out.written.val),
                                            inp.compression, inp.overflow_checks)]
    /\ UNCHANGED <<TMVars, inp>>

NextDirectory == DirToWriter \/ DirFromReader

SpecDirectory == InitDirectory /\ [][NextDirectory]_vars

\* The varints of the written stream behind the count of entries: four
\* columns, the offset column last.
WrittenVarints ==
    read_column(decompress_all(inp.compression, out.written.val).val,
                1 + Len(write_varint(Len(inp.entries))),
                4 * Len(inp.entries), <<>>).val

OffsetColumn ==
    [i \in 1 .. Len(inp.entries) |-> WrittenVarints[3 * Len(inp.entries) + i]]

\* Entry i (from 1) lies at the end of the entry before it.
Contiguous(i) ==
    i > 1 /\ inp.entries[i].offset
                 = inp.entries[i - 1].offset + inp.entries[i - 1].length

\* The offset column is that of the entries: offset + 1, or the sentinel 0
\* after the first entry for an entry at the end of the one before.
OffsetColumnHolds ==
    /\ out.written.kind = "Ok"
    /\ \A i \in 1 .. Len(inp.entries) :
          OffsetColumn[i] = IF Contiguous(i) THEN 0 ELSE inp.entries[i].offset + 1

\* C23 as stated: to_writer writes offset_col[0] = offset[0] + 1 and, for
\* i > 0, offset_col[i] = 0 if and only if offset[i] = offset[i-1] +
\* length[i-1], else offset[i] + 1; no value but the sentinel is 0, for
\* every offset a u64 can hold.
C23_OffsetColumn == pc # "directory" => OffsetColumnHolds

\* Every offset + 1 and every offset + length is a u64.
OffsetsFit ==
    \A i \in 1 .. Len(inp.entries) :
        /\ inp.entries[i].offset < U64Max
        /\ inp.entries[i].offset + inp.entries[i].length <= U64Max

\* The same for entries whose offset + 1 and offset + length are u64 values.
OffsetColumnWithinU64 == (pc # "directory" /\ OffsetsFit) => OffsetColumnHolds

\* Beyond that, to_writer panics with overflow checks; without them it writes
\* 0 for the offset u64::MAX, also for the first entry.
OffsetColumnOverflows ==
    (pc # "directory" /\ ~OffsetsFit) =>
        IF inp.overflow_checks THEN out.written = Panic
        ELSE /\ out.written.kind = "Ok"
             /\ \A i \in 1 .. Len(inp.entries) :
                   inp.entries[i].offset = U64Max => OffsetColumn[i] = 0

\* A 0 is written for the first entry.
ZeroForFirstEntry ==
    /\ pc # "directory"
    /\ out.written.kind = "Ok"
    /\ Len(inp.entries) >= 1
    /\ OffsetColumn[1] = 0

\* to_writer succeeds, and from_reader of what it wrote returns the
\* directory, entry for entry.
DirectoryReadBack ==
    /\ pc # "directory" => out.written.kind = "Ok"
    /\ pc = "read" => out.read = Ok(inp.entries)

\* C24 as stated: for every directory whose entries have non-decreasing
\* tile_id, with any run_length, length and offset, from_reader of what
\* to_writer wrote with the same compression returns the directory, entry
\* for entry.
C24_EncodeDecode == DirectoryReadBack

\* The same for entries whose offset + 1 and offset + length are u64 values.
EncodeDecodeWithinU64 == OffsetsFit => DirectoryReadBack

\* A directory with a leaf pointer, two entries of one tile id and an entry
\* that starts before the end of the one before it is read back.
ReadBackOverlapping ==
    /\ pc = "read" /\ OffsetsFit /\ DirectoryReadBack
    /\ inp.compression = "GZip"
    /\ Len(inp.entries) >= 2
    /\ inp.entries[1].run_length = 0
    /\ inp.entries[2].tile_id = inp.entries[1].tile_id
    /\ inp.entries[2].offset < inp.entries[1].offset + inp.entries[1].length

\* Without overflow checks, the offset u64::MAX of an entry after the first
\* is written as the sentinel and read back as the end of the entry before.
ReadBackElsewhere ==
    /\ pc = "read" /\ ~inp.overflow_checks
    /\ out.read.kind = "Ok"
    /\ \E i \in 2 .. Len(inp.entries) :
          /\ inp.entries[i].offset = U64Max
          /\ out.read.val[i].offset # U64Max

-----------------------------------------------------------------------------
(* read_dir_rec: which leaf directories a filtered walk reads               *)

\* The range has an inclusive end: `..=v`, or `..v` with v > 0.
HasInclusiveEnd(range) ==
    \/ range.end.kind = "Included"
    \/ range.end.kind = "Excluded" /\ range.end.val > 0

InclusiveEnd(range) ==
    IF range.end.kind = "Included" THEN range.end.val ELSE range.end.val - 1

\* The innermost read_dir_rec of a walk with an inclusive end looks at an
\* entry that points to a leaf directory.
AtLeafPointer ==
    /\ pc \in {"full", "part"}
    /\ out.walk # None
    /\ out.walk.status = Running
    /\ out.walk.stack # <<>>
    /\ HasInclusiveEnd(out.walk.range)
    /\ LET frame == out.walk.stack[Len(out.walk.stack)]
       IN  /\ frame.next <= Len(frame.directory)
           /\ is_leaf_dir_entry(CurrentEntry(frame))

\* The step seeks to the leaf directory of the entry and decodes it.
LeafSought ==
    LET depth == Len(out.walk.stack)
        entry == CurrentEntry(out.walk.stack[depth])
    IN  /\ out'.walk # None
        /\ out'.walk.status = Running
        /\ Len(out'.walk.stack) = depth + 1
        /\ out'.walk.stack[depth].next = out.walk.stack[depth].next + 1
        /\ Ok(out'.walk.stack[depth + 1].directory)
               = DirectoryAt(inp.leaf_dir_offset + entry.offset, entry.length)
        /\ out'.walk.stack[depth + 1].next = 1

\* The step goes on to the next entry and does nothing else.
LeafSkipped ==
    out'.walk = [out.walk EXCEPT !.stack[Len(out.walk.stack)].next = @ + 1]

LeafSoughtIffInRange ==
    AtLeafPointer =>
        IF CurrentEntry(out.walk.stack[Len(out.walk.stack)]).tile_id
               <= InclusiveEnd(out.walk.range)
        THEN LeafSought
        ELSE LeafSkipped

\* The filtered call found every tile id of the archive inside its range.
NothingDropped ==
    (pc = "archive" /\ out.part # None /\ HasInclusiveEnd(out.part.range))
        => /\ out.part.result.kind = "Ok"
           /\ \A t \in DOMAIN TilesOf(inp.data_entries) :
                 contains(out.part.range, t) => t \in DOMAIN out.part.result.val

\* C25: in a walk with a filter range of inclusive end E, a leaf directory is
\* sought and decoded if and only if its pointer entry has tile_id <= E; for
\* a pointer with tile_id > E the step only moves on to the next entry; and
\* the walk returns every tile id of the archive that lies inside the range.
C25_LeafFilter ==
    /\ [][LeafSoughtIffInRange]_vars
    /\ []NothingDropped

\* C25's case: a filtered walk that has read one leaf directory, found a tile
\* in it, and has then passed over a leaf directory that starts after the end.
C25_Witness ==
    /\ pc = "part"
    /\ out.walk # None
    /\ out.walk.status = Running
    /\ Len(out.walk.stack) = 1
    /\ HasInclusiveEnd(out.walk.range)
    /\ DOMAIN out.walk.tiles # {}
    /\ LET frame == out.walk.stack[1]
       IN  /\ frame.next > 2
           /\ is_leaf_dir_entry(frame.directory[frame.next - 1])
           /\ frame.directory[frame.next - 1].tile_id > InclusiveEnd(out.walk.range)
           /\ is_leaf_dir_entry(frame.directory[1])

-----------------------------------------------------------------------------
(* write_directories: the root directory it leaves and the leaf section    *)

MaxLeafEntries == 4

\* Start sizes of the leaf directories; with the last one leaf directory
\* holds all entries.
LeafStartSizes == {1, 2, MaxLeafEntries}

\* n entries of one tile each, in order of tile_id: contents one after the
\* other, or entries that take 8 bytes each in a directory.
SplitEntries(n, wide) ==
    [i \in 1 .. n |->
        IF wide THEN Entry(200 * (i - 1), 20000 + 1000 * (i - 1), 200, 1)
        ELSE Entry(i - 1, TileLength * (i - 1), TileLength, 1)]

InitLeaves ==
    /\ IdleTM
    /\ pc = "entries"
    /\ out = [written |-> None, walk |-> None, read |-> None]
    /\ \E n \in 0 .. MaxLeafEntries, wide \in BOOLEAN, start_size \in LeafStartSizes,
          compression \in {"None", "GZip"}, overflow_checks \in BOOLEAN :
          inp = [all_entries |-> SplitEntries(n, wide),
                 start_size |-> Some(start_size),
                 compression |-> compression,
                 overflow_checks |-> overflow_checks]

SpecLeaves == InitLeaves /\ [][NextRoundTrip]_vars

WrittenOk == out.written # None /\ out.written.kind = "Ok"

\* The directory of all entries, which write_directories writes first.
RootOfAll == out.written.roots[1]

\* The entries of the root directory write_directories leaves in the output.
LeftRoot ==
    from_reader_impl(out.written.roots[Len(out.written.roots)],
                     Len(out.written.roots[Len(out.written.roots)]),
                     inp.compression, inp.overflow_checks)

\* The bytes of the returned buffer that a pointer delimits, and the
\* directory they hold.
PointedBytes(pointer) ==
    SubSeq(out.written.val, pointer.offset + 1, pointer.offset + pointer.length)

PointedLeaf(pointer) ==
    from_reader_impl(PointedBytes(pointer), pointer.length, inp.compression,
                     inp.overflow_checks)

\* The pointer delimits the encoded leaf directory of a chunk that starts
\* with the pointer's tile_id.
PointsToChunk(pointer) ==
    /\ pointer.run_length = 0
    /\ pointer.offset + pointer.length <= Len(out.written.val)
    /\ PointedLeaf(pointer).kind = "Ok"
    /\ PointedLeaf(pointer).val # <<>>
    /\ PointedLeaf(pointer).val[1].tile_id = pointer.tile_id
    /\ to_writer_impl(PointedLeaf(pointer).val, inp.compression,
                      inp.overflow_checks) = Ok(PointedBytes(pointer))

\* The leaves lie back to back from offset 0 and cover the whole buffer.
BackToBack(pointers) ==
    /\ pointers # <<>>
    /\ pointers[1].offset = 0
    /\ \A k \in 1 .. Len(pointers) - 1 :
          pointers[k + 1].offset = pointers[k].offset + pointers[k].length
    /\ pointers[Len(pointers)].offset + pointers[Len(pointers)].length
           = Len(out.written.val)

\* The entries of the leaves the pointers delimit, in order.
RECURSIVE ChunksOf(_)
ChunksOf(pointers) ==
    IF pointers = <<>> THEN <<>>
    ELSE PointedLeaf(Head(pointers)).val \o ChunksOf(Tail(pointers))

OnlyLeafPointersLeft ==
    /\ LeftRoot.kind = "Ok"
    /\ \A k \in 1 .. Len(LeftRoot.val) : PointsToChunk(LeftRoot.val[k])
    /\ BackToBack(LeftRoot.val)
    /\ ChunksOf(LeftRoot.val) = inp.all_entries

AllEntriesLeft ==
    /\ out.written.val = <<>>
    /\ out.written.roots = <<RootOfAll>>
    /\ LeftRoot = Ok(inp.all_entries)

\* C26: when the root directory of all entries fits, write_directories
\* returns an empty leaf buffer and leaves that root; otherwise the root it
\* leaves holds only leaf pointers, one per chunk of all_entries in order,
\* each with the first tile_id of its chunk and the (offset, length) of the
\* chunk's encoded leaf directory in the returned buffer, the leaves back to
\* back from offset 0 over the whole buffer, the chunks making up all_entries.
C26_SplitShape ==
    WrittenOk => IF Len(RootOfAll) <= RootDirLimit
                 THEN AllEntriesLeft
                 ELSE OnlyLeafPointersLeft

\* No leaf directory written is too long for the u32 of a pointer's length.
LeavesFitU32 ==
    \A k \in 1 .. Len(LeftRoot.val) :
        LeftRoot.val[k].offset + U32Modulus
            > (IF k < Len(LeftRoot.val) THEN LeftRoot.val[k + 1].offset
               ELSE Len(out.written.val))

\* The shape holds whenever every leaf directory is shorter than 2^32 bytes.
SplitShapeWithinU32 ==
    (WrittenOk /\ LeftRoot.kind = "Ok" /\ LeavesFitU32) => C26_SplitShape

\* A leaf directory of exactly 2^32 bytes: its pointer has the length 0.
LeafLengthCutOff ==
    /\ WrittenOk
    /\ Len(out.written.val) = U32Modulus
    /\ Len(LeftRoot.val) = 1
    /\ LeftRoot.val[1].length = 0

\* An overflowing root directory replaced by one of two leaf pointers.
SplitInTwo ==
    /\ WrittenOk
    /\ Len(RootOfAll) > RootDirLimit
    /\ Len(out.written.roots) >= 3
    /\ Len(LeftRoot.val) = 2
    /\ OnlyLeafPointersLeft

-----------------------------------------------------------------------------
(* only_leaf_pointer_strategy: the end of its loop                          *)

\* A round whose root directory does not fit doubles the leaf size.
LeafSizeDoubles ==
    (pc = "overflow" /\ pc' = "overflow") => out'.leaf_size = 2 * out.leaf_size

\* A round with one leaf directory for all entries is the last, and returns.
SingleLeafReturns ==
    (pc = "overflow" /\ out.leaf_size >= inp.n)
        => (pc' = "returned" /\ out'.result.kind = "Ok")

\* Every round starts with a positive leaf size, so that doubling it gets
\* to the number of entries, and the loop never ends in a panic.
LeafSizeGrows == pc = "overflow" => out.leaf_size >= 1

SplitNeverPanics == pc = "returned" => out.result # Panic

\* C27: for every entry list and every start size the loop of
\* only_leaf_pointer_strategy ends by returning: the leaf size is positive
\* and doubles after each round whose root directory does not fit, and the
\* round in which it has reached the number of entries returns Ok; no call
\* ends in a panic.
C27_LoopTerminates ==
    /\ [](LeafSizeGrows /\ SplitNeverPanics)
    /\ [][LeafSizeDoubles /\ SingleLeafReturns]_vars

\* The same for every start size but 0.
LoopTerminatesFromPositive ==
    /\ [](inp.start_size # Some(0) => (LeafSizeGrows /\ SplitNeverPanics))
    /\ [][LeafSizeDoubles /\ SingleLeafReturns]_vars

\* A start size of 0 and a root directory that does not fit: a panic.
PanicsFromZero ==
    (pc = "returned" /\ out.result = Panic)
        => /\ inp.start_size = Some(0)
           /\ out.root_directory_length > MAX_ROOT_DIR_LENGTH

ChunksOfZero ==
    /\ pc = "returned"
    /\ out.result = Panic
    /\ inp.start_size = Some(0)

\* The loop has returned after a round that doubled the leaf size.
ReturnedAfterDoubling ==
    /\ pc = "returned"
    /\ out.result.kind = "Ok"
    /\ inp.start_size = Some(1)
    /\ inp.compression = "None"
    /\ out.leaf_size = 2

-----------------------------------------------------------------------------
(* read_directories over archives of any leaf pointers                      *)

\* The model's capacity of the call stack, in calls of read_dir_rec; the
\* program's is that of the thread's stack.
StackLimit == 4

StackOverflow == [kind |-> "StackOverflow"]

\* Offsets and lengths of the leaf pointers: a directory of one entry has 5
\* bytes, one of two entries 9.
PointerOffsets == {0, 5}

PointerLengths == {5, 9}

\* The entries an archive may hold with the tile id t: one tile, or a
\* pointer to some place of the leaf directory section.
AnyEntries(t) ==
    {Entry(t, 0, TileLength, 1)}
        \cup {Entry(t, o, l, 0) : o \in PointerOffsets, l \in PointerLengths}

\* The directories of up to two entries.
AnyDirectories ==
    {<<>>} \cup {<<e>> : e \in AnyEntries(0)}
           \cup {<<e, f>> : e \in AnyEntries(0), f \in AnyEntries(1)}

\* The position of a directory in the archive.
Position(offset, length) == [offset |-> offset, length |-> length]

InitMalformed ==
    /\ IdleTM
    /\ pc = "archive"
    /\ out = [walk |-> None, path |-> <<>>, entered |-> {}, twice |-> FALSE,
              result |-> None]
    /\ \E root \in AnyDirectories, leaf \in AnyDirectories,
          leaves_at_root \in BOOLEAN, overflow_checks \in BOOLEAN :
          inp = [ArchiveOf(to_writer_impl(root, "None", FALSE).val,
                           to_writer_impl(leaf, "None", FALSE).val,
                           "None", overflow_checks)
                    EXCEPT !.leaf_dir_offset = IF leaves_at_root THEN 0 ELSE @]

\* read_directories(.., ..) up to the loop of the first read_dir_rec.
WalkMalformed ==
    /\ pc = "archive"
    /\ out' = [out EXCEPT
                  !.walk = read_directories(inp, FullRange),
                  !.path = <<Position(inp.root_dir_offset_length[1],
                                      inp.root_dir_offset_length[2])>>,
                  !.entered = {Position(inp.root_dir_offset_length[1],
                                        inp.root_dir_offset_length[2])}]
    /\ pc' = "walking"
    /\ UNCHANGED <<TMVars, inp>>

\* The position the innermost read_dir_rec goes to for its current entry.
PointedPosition(w) ==
    Position(inp.leaf_dir_offset
                 + CurrentEntry(w.stack[Len(w.stack)]).offset,
             CurrentEntry(w.stack[Len(w.stack)]).length)

\* One round of the innermost read_dir_rec, w1 being the walk after it: a
\* call of read_dir_rec for which the stack has no room ends the process.
walk_round(o, w1) ==
    IF Len(w1.stack) > Len(o.walk.stack)
    THEN IF Len(o.walk.stack) >= StackLimit
         THEN [o EXCEPT !.walk.status = StackOverflow]
         ELSE [o EXCEPT !.walk = w1,
                        !.path = Append(@, PointedPosition(o.walk)),
                        !.entered = @ \cup {PointedPosition(o.walk)},
                        !.twice = @ \/ PointedPosition(o.walk) \in o.entered]
    ELSE [o EXCEPT !.walk = w1, !.path = SubSeq(@, 1, Len(w1.stack))]

WalkMalformedRec ==
    /\ pc = "walking"
    /\ out.walk.status = Running
    /\ out.walk.stack # <<>>
    /\ out' = walk_round(out, read_dir_rec_step(inp, out.walk))
    /\ UNCHANGED <<TMVars, inp, pc>>

WalkMalformedReturn ==
    /\ pc = "walking"
    /\ out.walk.status # Running \/ out.walk.stack = <<>>
    /\ out' = [out EXCEPT !.result = IF out.walk.status = Running
                                     THEN Ok(out.walk.tiles) ELSE out.walk.status]
    /\ pc' = "returned"
    /\ UNCHANGED <<TMVars, inp>>

NextMalformed == WalkMalformed \/ WalkMalformedRec \/ WalkMalformedReturn

SpecMalformed == InitMalformed /\ [][NextMalformed]_vars

\* C28: on every input whose directories decode the walk of read_directories
\* ends: the calls of read_dir_rec never outgrow the stack, and no directory
\* is entered twice in one walk.
C28_WalkTerminates ==
    /\ ~out.twice
    /\ out.walk # None => out.walk.status # StackOverflow

\* Some directory is on the path from the root more than once.
OnCycle ==
    \E i, j \in 1 .. Len(out.path) : i < j /\ out.path[i] = out.path[j]

\* The walk outgrows the stack only on a cycle of leaf pointers, and a walk
\* on which no directory was entered twice has returned Ok or Err.
EndsWithoutCycle ==
    /\ (out.walk # None /\ out.walk.status = StackOverflow) => OnCycle
    /\ (pc = "returned" /\ ~out.twice) => out.result.kind \in {"Ok", "Err"}

\* A leaf directory that points to itself: the walk outgrows the stack.
SelfPointingLeaf ==
    /\ pc = "returned"
    /\ out.result = StackOverflow
    /\ Len(out.path) = StackLimit
    /\ \A i \in 2 .. StackLimit : out.path[i] = out.path[2]
    /\ out.path[1] # out.path[2]

\* Two pointers to one leaf directory: entered twice, and the walk returns.
LeafEnteredTwice ==
    /\ pc = "returned"
    /\ out.result.kind = "Ok"
    /\ out.twice
    /\ DOMAIN out.result.val # {}

-----------------------------------------------------------------------------
(* PMTiles::to_writer: the order of its writes                              *)

WriteOrder ==
    <<"root_directory", "json_metadata", "leaf_directories", "tile_data", "header">>

\* The sections written so far are the first ones of the order.
WrittenSoFar == \E k \in 0 .. 5 : DOMAIN out.written = {WriteOrder[i] : i \in 1 .. k}

\* A step that writes a section writes the next one of the order, and no
\* step changes the output once the header is written.
WritesNextSection ==
    /\ \A k \in 1 .. 5 :
          (WriteOrder[k] \in DOMAIN out'.written \ DOMAIN out.written)
              => /\ DOMAIN out.written = {WriteOrder[i] : i \in 1 .. k - 1}
                 /\ DOMAIN out'.written = {WriteOrder[i] : i \in 1 .. k}
    /\ "header" \in DOMAIN out.written => out'.output.bytes = out.output.bytes
    /\ out'.output.bytes # out.output.bytes => DOMAIN out'.written # DOMAIN out.written

\* The bytes written for the section are in the output as they were written.
Intact(section) ==
    SubSeq(out.output.bytes, out.written[section].at + 1,
           out.written[section].at + Len(out.written[section].bytes))
        = out.written[section].bytes

\* The header that the bytes written last hold.
WrittenHeader == header_from_reader(out.written.header.bytes)

\* The header written records the positions computed while the sections
\* were written, clustered = true, spec_version = 3 and the counts of finish.
HeaderWrittenLast ==
    /\ DOMAIN out.written = {WriteOrder[i] : i \in 1 .. 5}
    /\ \A section \in DOMAIN out.written : Intact(section)
    /\ WrittenHeader.kind = "Ok"
    /\ \A section \in Sections :
          /\ WrittenHeader.val[section \o "_offset"] = out.header[section \o "_offset"]
          /\ WrittenHeader.val[section \o "_length"] = out.header[section \o "_length"]
    /\ OffsetsChained
    /\ WrittenHeader.val.tile_data_length = Len(out.finish.data)
    /\ WrittenHeader.val.clustered = TRUE
    /\ WrittenHeader.val.spec_version = 3
    /\ WrittenHeader.val.num_addressed_tiles = out.finish.num_addressed_tiles
    /\ WrittenHeader.val.num_tile_entries = out.finish.num_tile_entries
    /\ WrittenHeader.val.num_tile_content = out.finish.num_tile_content

\* C29: to_writer writes the root directory, the metadata, the leaf
\* directories, the tile data and the header in this order; nothing is
\* written after the header; and in every successful run the header written
\* holds the offsets and lengths of the sections, clustered = true,
\* spec_version = 3 and the three counts of finish.
C29_WriteOrder ==
    /\ [][WritesNextSection]_vars
    /\ [](WrittenSoFar /\ (ToWriterOk => HeaderWrittenLast))

\* C29's case: a successful run from a cursor behind the start, with tiles,
\* whose five sections are all in the output.
C29_Witness ==
    /\ ToWriterOk
    /\ inp.start > 0
    /\ out.finish.num_tile_content >= 2
    /\ DOMAIN out.written = {WriteOrder[i] : i \in 1 .. 5}
    /\ WrittenHeader.kind = "Ok"
    /\ WrittenHeader.val.clustered

-----------------------------------------------------------------------------
(* PMTiles::to_writer, then PMTiles::from_reader over what was written      *)

\* Bodies of the tiles of an archive, one of them of 2^32 bytes.
ArchiveContents == Contents \cup {LongContent}

\* Cursor positions of the output when to_writer is called.
ArchiveStarts == {0, 1}

\* A handle filled by add_tile and remove_tile: with `removed`, the last id
\* is added before the tiles and removed after them unless it is one of them.
ArchiveManager(tiles, removed) ==
    IF ~removed
    THEN add_tiles(Manager(EmptyMap, EmptyMap, EmptyMap), tiles,
                   SortedSeq(DOMAIN tiles))
    ELSE IF MaxTileId \in DOMAIN tiles
    THEN add_tiles(add_tile(Manager(EmptyMap, EmptyMap, EmptyMap), MaxTileId, <<1, 2>>),
                   tiles, SortedSeq(DOMAIN tiles))
    ELSE remove_tile(add_tiles(add_tile(Manager(EmptyMap, EmptyMap, EmptyMap),
                                        MaxTileId, <<1, 2>>),
                               tiles, SortedSeq(DOMAIN tiles)),
                     MaxTileId).tm

InitArchive ==
    /\ IdleTM
    /\ pc = "to_writer"
    /\ \E S \in SUBSET TileIds, start \in ArchiveStarts, removed \in BOOLEAN,
          internal_compression \in {"None", "GZip"}, meta_data \in MetaDatas,
          overflow_checks \in BOOLEAN :
       \E tiles \in [S -> ArchiveContents] :
          /\ inp = [tile_manager |-> ArchiveManager(tiles, removed),
                    tiles |-> tiles,
                    internal_compression |-> internal_compression,
                    meta_data |-> meta_data,
                    start |-> start,
                    overflow_checks |-> overflow_checks]
          /\ out = [output |-> Stream([i \in 1 .. start |-> 255], start),
                    result |-> None,
                    finish |-> None,
                    leaf_directories_data |-> <<>>,
                    header |-> EmptyMap,
                    written |-> EmptyMap,
                    input |-> <<>>,
                    from_reader |-> None,
                    read_header |-> None,
                    read_meta_data |-> None,
                    walk |-> None,
                    got |-> None]

\* The archive written, without its metadata section: the header and the
\* sections around it as they would be with json_metadata_length = 0.
WithoutMetaData ==
    StoredArchive(out.finish, out.written.root_directory.bytes, <<>>,
                  inp.internal_compression)

\* What is given to from_reader: the output of to_writer, or, for an archive
\* at the start of the output and without leaf directories, the same archive
\* without its metadata section.
ArchiveInputs ==
    {out.output.bytes}
        \cup (IF inp.start = 0 /\ out.leaf_directories_data = <<>>
              THEN {WithoutMetaData} ELSE {})

\* PMTiles::from_reader(Cursor::new(input)) up to the first read_dir_rec.
OpenArchive ==
    /\ pc = "returned"
    /\ out.result.kind = "Ok"
    /\ \E input \in ArchiveInputs :
          out' = from_reader([out EXCEPT !.input = input], input, inp.overflow_checks)
    /\ pc' = IF out'.from_reader = None THEN "read_directories" ELSE "opened"
    /\ UNCHANGED <<TMVars, inp>>

OpenArchiveDirRec ==
    /\ pc = "read_directories"
    /\ out.walk.status = Running
    /\ out.walk.stack # <<>>
    /\ out' = [out EXCEPT
                  !.walk = read_dir_rec_step(
                               HeaderArchive(out.input, out.read_header,
                                             inp.overflow_checks), @)]
    /\ UNCHANGED <<TMVars, inp, pc>>

OpenArchiveReturn ==
    /\ pc = "read_directories"
    /\ out.walk.status # Running \/ out.walk.stack = <<>>
    /\ pc' = "opened"
    /\ out' = from_reader_return(
                  out,
                  IF out.walk.status # Running THEN out.walk.status
                  ELSE from_reader_tiles(Manager(EmptyMap, EmptyMap, EmptyMap),
                                         out.walk.tiles,
                                         SortedSeq(DOMAIN out.walk.tiles),
                                         out.read_header.tile_data_offset,
                                         inp.overflow_checks))
    /\ UNCHANGED <<TMVars, inp>>

\* get_tile_by_id of the handle read, for every id.
GetTilesById ==
    /\ pc = "opened"
    /\ out.from_reader.kind = "Ok"
    /\ out' = [out EXCEPT
                  !.got = [id \in TileIds |->
                              get_tile(Some(out.input),
                                       out.from_reader.val.tile_manager, id)]]
    /\ pc' = "got"
    /\ UNCHANGED <<TMVars, inp>>

NextArchive ==
    \/ NextToWriter
    \/ OpenArchive
    \/ OpenArchiveDirRec
    \/ OpenArchiveReturn
    \/ GetTilesById

SpecArchive == InitArchive /\ [][NextArchive]_vars

\* from_reader has returned for the bytes written by to_writer.
WrittenOpened ==
    /\ pc \in {"opened", "got"}
    /\ out.input = out.output.bytes

\* The handle read has the ids of the handle written, each as a reference to
\* its bytes behind tile_data_offset, and the fields of the handle written.
SameHandle ==
    /\ out.from_reader.kind = "Ok"
    /\ DOMAIN out.from_reader.val.tile_manager.tile_by_id = DOMAIN inp.tiles
    /\ \A id \in DOMAIN inp.tiles :
          /\ out.from_reader.val.tile_manager.tile_by_id[id].kind = "OffsetLength"
          /\ out.from_reader.val.tile_manager.tile_by_id[id].offset
                 >= out.read_header.tile_data_offset
    /\ out.from_reader.val.tile_type = HandleFields.tile_type
    /\ out.from_reader.val.tile_compression = HandleFields.tile_compression
    /\ out.from_reader.val.internal_compression = inp.internal_compression
    /\ out.from_reader.val.min_zoom = HandleFields.min_zoom
    /\ out.from_reader.val.max_zoom = HandleFields.max_zoom
    /\ out.from_reader.val.center_zoom = HandleFields.center_zoom

\* get_tile_by_id returns the bytes added for every id, None for the others.
SameTiles ==
    \A id \in TileIds :
        out.got[id] = IF id \in DOMAIN inp.tiles THEN Some(inp.tiles[id]) ELSE None

ArchiveRoundTrip ==
    /\ pc = "returned" => out.result.kind = "Ok"
    /\ WrittenOpened => SameHandle
    /\ (WrittenOpened /\ pc = "got") => SameTiles

\* C21: an archive built with add_tile and remove_tile and written by
\* to_writer to an empty output at position 0 is read back by from_reader as
\* a handle of the same tile ids, whose get_tile_by_id returns for each id
\* the bytes that were added, with the same tile_type, tile_compression,
\* internal_compression and zoom fields, whether or not the root directory
\* overflowed into leaf directories.
C21_ArchiveRoundTrip == inp.start = 0 => ArchiveRoundTrip

\* Every body is shorter than 2^32 bytes and no two bodies added have the
\* same hash.
BodiesWithinLimits ==
    \A id1, id2 \in DOMAIN inp.tiles :
        /\ Len(inp.tiles[id1]) < U32Modulus
        /\ calculate_hash(inp.tiles[id1]) = calculate_hash(inp.tiles[id2])
               => inp.tiles[id1] = inp.tiles[id2]

\* The round trip holds for bodies within these limits.
ArchiveRoundTripWithinLimits ==
    (inp.start = 0 /\ BodiesWithinLimits) => ArchiveRoundTrip

\* A body of 2^32 bytes comes back empty.
LongBodyCutOff ==
    /\ pc = "got"
    /\ WrittenOpened
    /\ inp.start = 0
    /\ DOMAIN inp.tiles = {0}
    /\ inp.tiles[0] = LongContent
    /\ out.got[0] = Some(<<>>)

\* A round trip through leaf directories.
ReadBackThroughLeaves ==
    /\ pc = "got"
    /\ WrittenOpened
    /\ inp.start = 0
    /\ out.leaf_directories_data # <<>>
    /\ SameTiles
    /\ Cardinality(DOMAIN inp.tiles) = 3

-----------------------------------------------------------------------------
(* The metadata section of an archive written and read                      *)

\* to_writer has written the header.
ArchiveWritten == "header" \in DOMAIN out.written

\* The metadata section written is the compressed JSON of the meta data, of
\* `{}` without, and the header records its length, which is not 0.
MetaDataWritten ==
    /\ Ok(out.written.json_metadata.bytes)
           = compress_all(inp.internal_compression,
                          IF inp.meta_data = None THEN JsonEmptyObject
                          ELSE inp.meta_data.val)
    /\ out.header.json_metadata_length = Len(out.written.json_metadata.bytes)
    /\ out.header.json_metadata_length > 0
    /\ from_reader_meta_data(out.output.bytes, out.header)
           = Ok(Some(IF inp.meta_data = None THEN JsonEmptyObject
                     ELSE inp.meta_data.val))

\* from_reader has returned a handle.
Opened == pc \in {"opened", "got"} /\ out.from_reader.kind = "Ok"

\* The handle read from the bytes written has the meta data of the handle
\* written, `{}` where that had none.
MetaDataReadBack ==
    out.from_reader.val.meta_data
        = Some(IF inp.meta_data = None THEN JsonEmptyObject ELSE inp.meta_data.val)

OpenedWithoutMetaData ==
    /\ Opened
    /\ out.input # out.output.bytes
    /\ out.read_header.json_metadata_length = 0
    /\ out.from_reader.val.meta_data = None
    /\ DOMAIN out.from_reader.val.tile_manager.tile_by_id # {}

=============================================================================
